---- MODULE Spec2Model ----
(***************************************************************************)
(* knex-schema-builder: the install / upgrade engine of KnexSchemaBuilder  *)
(* (the async/await implementation, src/unnamed/part_001 lines 1027-2043). *)
(*                                                                         *)
(* The database is the bookkeeping table schema_globals (does it exist,    *)
(* which rows does it hold) plus the log of every driver call issued.      *)
(* The file system is version.json (a number) and the upgrade.<N>.json     *)
(* descriptors. What a file holds is an input of the step that reads it:   *)
(* the outcome of the read when the loop loads a descriptor, the fields of *)
(* an action when the for loop reaches it. Every driver call may fail: the *)
(* outcome is an input of the step that issues it.                         *)
(***************************************************************************)
EXTENDS Integers, Sequences, FiniteSets, TLC

(* ------------------------------ bounds -------------------------------- *)
MaxVersion == 2         \* versions range over 0..MaxVersion
MaxActions == 2         \* actions per upgrade.<N>.json
MaxBound == 1           \* min_version / max_version range over 0..MaxBound
MaxTables == 2          \* tables declared by schema.json
MaxRaw == 2             \* raw bootstrap queries of schema.json
MaxOps == 2             \* version store operations called one after the other
MaxColumns == 2         \* columns of a table of schema.json
MaxAwaited == 1         \* actions of a descriptor when every call is followed one by one
MaxCallers == 2         \* concurrent calls of getCurrentDbVersion
MaxObjects == 2         \* names of tables and views of the database that is backed up

(* --------------------------- JavaScript values ------------------------- *)
\* null and undefined are kept apart from the numbers.
NULL == -1
UNDEFINED == -2

\* ToNumber of the relational operators and of ++ : null is 0.
ToNumber(v) == IF v = NULL THEN 0 ELSE v

\* a <= b in the place of a < b
JsLess_orEqual(a, b) == a # UNDEFINED /\ b # UNDEFINED /\ ToNumber(a) <= ToNumber(b)

\* a < b as JavaScript evaluates it for numbers, null and undefined
\* (undefined is NaN: every comparison with it is false).
JsLess(a, b) == a # UNDEFINED /\ b # UNDEFINED /\ ToNumber(a) < ToNumber(b)
JsLessEq(a, b) == a # UNDEFINED /\ b # UNDEFINED /\ ToNumber(a) <= ToNumber(b)

\* the version is not advanced
JsIncrement_stays(v) == ToNumber(v)

\* v++ / v + 1
JsIncrement(v) == ToNumber(v) + 1

\* a value is truthy unless it is 0, null or undefined
Truthy(v) == v # 0 /\ v # NULL /\ v # UNDEFINED

(* ------------- the value column of schema_globals is a string ---------- *)
RECURSIVE NumberToString(_)
NumberToString(n) ==
    IF n < 10 THEN <<n>> ELSE NumberToString(n \div 10) \o <<n % 10>>

RECURSIVE ParseDigits(_, _)
ParseDigits(s, acc) ==
    IF s = <<>> THEN acc ELSE ParseDigits(Tail(s), acc * 10 + Head(s))

\* parseFloat(row['value'])
ParseFloat(s) == ParseDigits(s, 0)

(* ------------------------------- errors -------------------------------- *)
\* kind "none" is the absence of an error; version / index locate the
\* descriptor and the action the error came from (0 when not applicable).
Err(kind, version, index) == [kind |-> kind, version |-> version, index |-> index]
NoError == Err("none", 0, 0)

(* ------------------------------- actions ------------------------------- *)
\* One entry of upgrade.<N>.json, as far as the version loop looks at it:
\* the fields the bounds tests read, and the fields the switch reads.
\* A bound that the entry does not carry is undefined.
Bounds == {UNDEFINED} \cup 0..MaxBound

\* What the switch finds before it issues a driver call: nothing, or that
\* the table, the column or the kind of the action is not known.
Faults == {"none", "unknown-table", "unknown-column", "unknown-action"}

ActionBounds == [min_version : Bounds, max_version : Bounds]
ActionSet == [ignore_errors : BOOLEAN, fault : Faults]

\* The kinds of action the switch has a case for.
Kinds == {"execute", "createTable", "createTableIndexes", "createTableForeignKeys",
          "addColumn", "alterColumn", "renameColumn", "createIndex", "createForeign",
          "dropColumn", "dropTable", "dropPrimary", "dropIndex", "dropForeign",
          "dropUnique", "addTimestamps", "dropTimestamps"}

\* Names are sequences of characters: the program concatenates them.
TableNames == {<<"t">>, <<"u">>}
ColumnNames == {"c1", "c2", "c3"}

\* the tables schema.json declares, and the column lists it gives them
DeclaredTables == {<<"t">>}
ColumnLists == UNION {[1..n -> {"c1", "c2"}] : n \in 0..MaxColumns}

\* foreignKey['foreign_table'] of the foreign keys in the model
ForeignTable == <<"u">>

\* One entry of upgrade.<N>.json, as the switch reads it.
DetailedActions ==
    [action : Kinds \cup {"other"}, table : TableNames, column : ColumnNames,
     ignore_errors : BOOLEAN]

\* the switch is looking at no action
NoAction == [action |-> "none", table |-> <<>>, column |-> "", ignore_errors |-> FALSE]

\* this step has examined no action
NotExamined == [step |-> "none", within |-> FALSE, softened |-> FALSE, answer |-> "none", second |-> "none"]

\* The lengths the array of an upgrade.<N>.json can have.
DescriptorLengths == 0..MaxActions

\* What reading upgrade.<N>.json can give.
ReadOutcomes == {"ok", "ENOENT", "SyntaxError", "EACCES"}

\* An entry of the raw list of schema.json: a string, an array of strings,
\* or something that is neither (an empty string, a number).
RawKinds == {"string", "lines", "other"}
RawLists == UNION {[1..n -> RawKinds] : n \in 0..MaxRaw}

\* err.code of the errors a driver call of install can fail with: the table
\* exists already (MySQL, PostgreSQL), the index exists already, the table is
\* missing, the database to drop is missing
ErrorCodes == {"ER_TABLE_EXISTS_ERROR", "ER_DUP_KEYNAME", "42P07",
               "ER_NO_SUCH_TABLE", "ER_DB_DROP_EXISTS"}

\* How a driver call of install can end: it succeeds or fails with a code.
DriverOutcomes == {"ok"} \cup ErrorCodes

\* what createColumn finds wrong with the columns of a table: nothing, a
\* column without a name, a column without a type
ColumnFaults == {"none", "column-missing-name", "column-missing-type"}

VARIABLES
    pc,               \* where the running operation is
    versionJson,      \* the version of version.json
    tableExists,      \* does schema_globals exist
    rows,             \* the rows of schema_globals
    calls,            \* every driver call issued so far, in order
    originalVersion, currentVersion, saveVersion, latestVersion,
    upgradeSchemaLength,  \* upgradeSchema.length of the loaded descriptor
    actionIndex,      \* position of the for loop in upgradeSchema
    thrown,           \* the exception on its way out of the try blocks
    result,           \* what the caller has received
    dbTables,         \* install: the number of tables of schema.json
    dbRawQueries,     \* install: the raw list of schema.json
    ignoreExistsError,
    phase,            \* install: which of its loops is running
    loopIndex,        \* install: position of that loop
    \* history, not read by the program
    firstFailure,     \* the first failed action that had no ignore_errors
    loopError,        \* the error the version loop was left with
    suppressedIn,     \* versions with a failed action that had ignore_errors
    storeFailed,      \* has a call on schema_globals failed
    notFound,         \* versions whose descriptor did not exist
    readErrors,       \* the descriptors that could not be read or parsed
    setInvocations,   \* the arguments of the setCurrentDbVersion calls
    examined,         \* what this step of the for loop found in the action it looked at
    tablePrefix,      \* _tablePrefix
    lastOp,           \* the version store operation that returned last
    opCount,          \* how many version store operations have returned
    schema,           \* the tables of schema.json: their column names, in declared order
    dispatched,       \* the action the switch is looking at, with the fields it reads
    issued,           \* the driver calls of that action, as they are issued
    inFlight,         \* the driver calls issued and not yet answered
    chain,            \* the version store operation under way, call by call
    adapter,          \* the operation called with a callback, and what reached the callback
    retry,            \* the descriptors on disk, which upgrade call is running, what the first did
    versionParses,    \* does version.json hold JSON
    callers,          \* the concurrent calls of getCurrentDbVersion
    builtColumn,      \* the column description given to createColumn, and the builder calls made
    document,         \* schema.json as install or upgrade read it, and what they took from it
    backup            \* the database given to exportTableStructure, and what it wrote to the stream

vars == <<pc, versionJson, tableExists, rows, calls, originalVersion,
          currentVersion, saveVersion, latestVersion, upgradeSchemaLength,
          actionIndex, thrown, result, dbTables, dbRawQueries,
          ignoreExistsError, phase, loopIndex, firstFailure, loopError,
          suppressedIn, notFound, readErrors, storeFailed, setInvocations, examined, tablePrefix,
          lastOp, opCount, schema, dispatched, issued, inFlight, chain, adapter, retry, versionParses,
          callers, builtColumn, document, backup>>

dbVars == <<tableExists, rows>>
upgradeVars == <<originalVersion, currentVersion, saveVersion, upgradeSchemaLength, actionIndex>>
storeVars == <<tablePrefix, lastOp, opCount>>
actionVars == <<schema, dispatched, issued>>
sideVars == <<inFlight, chain, adapter, retry, versionParses, callers, builtColumn, document, backup>>
sideButAwait == <<adapter, retry, versionParses, callers, builtColumn, document, backup>>
sideButAdapter == <<inFlight, chain, retry, versionParses, callers, builtColumn, document, backup>>
sideButRetry == <<inFlight, chain, adapter, versionParses, callers, builtColumn, document, backup>>
sideButCallers == <<inFlight, chain, adapter, retry, versionParses, builtColumn, document, backup>>
sideButColumn == <<inFlight, chain, adapter, retry, versionParses, callers, document, backup>>
sideButDocument == <<inFlight, chain, adapter, retry, versionParses, callers, builtColumn, backup>>
sideButBackup == <<inFlight, chain, adapter, retry, versionParses, callers, builtColumn, document>>
installVars == <<dbTables, dbRawQueries, ignoreExistsError, phase, loopIndex>>
historyVars == <<firstFailure, loopError, suppressedIn, notFound, readErrors, storeFailed>>

(* ----------------------------- driver calls ---------------------------- *)
Call(op, a, b) == [op |-> op, a |-> a, b |-> b]

\* The strings the program concatenates are sequences of characters.
DbVersion == <<"d", "b", "_", "v", "e", "r", "s", "i", "o", "n">>

\* the prefixes setTablePrefix is called with
Prefixes == {<<>>, <<"a", "_">>}

\* _tablePrefix + 'db_version'
KeyOf(prefix) == prefix \o DbVersion
VersionKey == KeyOf(tablePrefix)

\* no version store operation has returned
NoOp == [op |-> "none", arg |-> 0, ok |-> FALSE, value |-> UNDEFINED, failed |-> 0]

\* The row select('value').from('schema_globals').where('key', ...) finds.
VersionRows(rs) == {r \in rs : r.key = VersionKey}

\* without a version row the version is undefined, not null
StoredVersion_undefinedIfAbsent(rs) ==
    IF VersionRows(rs) = {} THEN UNDEFINED
    ELSE ParseFloat((CHOOSE r \in VersionRows(rs) : TRUE).value)

\* getCurrentDbVersion, its result for the rows rs
StoredVersion(rs) ==
    IF VersionRows(rs) = {} THEN NULL
    ELSE ParseFloat((CHOOSE r \in VersionRows(rs) : TRUE).value)

\* ensureSchemaGlobalsExist: the calls it issues when none fails
EnsureCalls(exists) ==
    IF exists THEN <<Call("hasTable", 0, 0)>>
    ELSE <<Call("hasTable", 0, 0), Call("createGlobals", 0, 0)>>

\* getCurrentDbVersion: the calls it issues when none fails
GetVersionCalls(exists) == EnsureCalls(exists) \o <<Call("select", 0, 0)>>

\* a stored version of 0 is taken for a missing row
InsertsRow_falsy(stored) == ~Truthy(stored)

\* setCurrentDbVersion: insert when the version it re-read is null
InsertsRow(stored) == stored = NULL

\* the version is always written with an update
SetVersionCalls_alwaysUpdate(exists, rs, version) ==
    GetVersionCalls(exists) \o <<Call("update", 0, version)>>

\* setCurrentDbVersion(db, version): the calls it issues when none fails
SetVersionCalls(exists, rs, version) ==
    GetVersionCalls(exists)
    \o <<Call(IF InsertsRow(StoredVersion(rs)) THEN "insert" ELSE "update", 0, version)>>

\* which call of a bookkeeping operation the driver fails (0: none)
FailPoints == 0..4

\* the calls issued when the driver fails call number failAt: the
\* operation stops at the failed call
IssuedCalls(cs, failAt) ==
    IF failAt \in 1..Len(cs) THEN SubSeq(cs, 1, failAt) ELSE cs

\* schema_globals has no primary key
DuplicateKey_never(cs, rs) == FALSE

\* key is the primary key of schema_globals: an insert of a second row
\* with the same key fails
DuplicateKey(cs, rs) == cs[Len(cs)].op = "insert" /\ VersionRows(rs) # {}

\* does the operation that issues cs come to its end
Succeeds(cs, failAt, rs) == failAt \notin 1..Len(cs) /\ ~DuplicateKey(cs, rs)

\* does schema_globals exist afterwards
ExistsAfter(exists, cs, failAt) ==
    exists \/ \E i \in 1..Len(cs) :
                cs[i].op = "createGlobals" /\ (failAt = 0 \/ failAt > i)

\* the rows after setCurrentDbVersion: an insert adds a row, an update
\* rewrites the rows with the key
RowsAfterSet(rs, version, cs, failAt) ==
    IF ~Succeeds(cs, failAt, rs) THEN rs
    ELSE IF cs[Len(cs)].op = "insert"
         THEN rs \cup {[key |-> VersionKey, value |-> NumberToString(version)]}
         ELSE {IF r.key = VersionKey
               THEN [r EXCEPT !.value = NumberToString(version)] ELSE r : r \in rs}

(* -------------------------------- Init --------------------------------- *)
Pending == [state |-> "pending", error |-> NoError, value |-> UNDEFINED]

\* no version store operation is under way
NoChain == [op |-> "none", next |-> "end", version |-> UNDEFINED, found |-> UNDEFINED,
            back |-> "none"]

\* no operation has been called with a callback
NoAdapter == [op |-> "none", body |-> "none", queue |-> <<>>, invoked |-> <<>>,
              uncaught |-> FALSE]

\* upgrade has not been called on descriptors that stay the same
NoRetry == [run |-> 0, files |-> <<>>, before |-> <<>>, abortedIn |-> 0]

\* the callers of getCurrentDbVersion that run at the same time
Callers == 1..MaxCallers

\* getCurrentDbVersion has not been called
NoCaller == [pc |-> "idle", sawMissing |-> FALSE, readAbsent |-> FALSE, error |-> NoError,
             version |-> UNDEFINED]

\* createColumn has not been called
NoColumn == [data |-> [type |-> <<>>, has |-> {}, falsy |-> {}], built |-> <<>>]

\* schema.json has not been read
NoDocument ==
    [op |-> "none",
     doc |-> [tables |-> 0,
              schema |-> [kind |-> "absent", columns |-> "none", keys |-> <<>>],
              raw |-> UNDEFINED],
     tables |-> <<>>, raw |-> 0]

\* exportTableStructure has not been called
NoBackup ==
    [done |-> FALSE, db |-> [n \in 1..MaxObjects |-> "none"], dropTable |-> FALSE,
     written |-> <<>>]

\* nothing is in flight
InitSide ==
    /\ inFlight = <<>>
    /\ chain = NoChain
    /\ adapter = NoAdapter
    /\ retry = NoRetry
    /\ callers = [c \in Callers |-> NoCaller]
    /\ builtColumn = NoColumn
    /\ document = NoDocument
    /\ backup = NoBackup

InitialRows ==
    {{}} \cup {{[key |-> KeyOf(<<>>), value |-> NumberToString(v)]} : v \in 0..MaxVersion}

InitProgram ==
    /\ pc = "idle"
    /\ versionJson \in 0..MaxVersion
    /\ tableExists \in BOOLEAN
    /\ rows \in InitialRows
    /\ (rows # {} => tableExists)
    /\ calls = <<>>
    /\ originalVersion = UNDEFINED
    /\ currentVersion = UNDEFINED
    /\ saveVersion = UNDEFINED
    /\ latestVersion = UNDEFINED
    /\ upgradeSchemaLength = 0
    /\ actionIndex = 0
    /\ thrown = NoError
    /\ result = Pending
    /\ dbTables = 0
    /\ dbRawQueries = <<>>
    /\ ignoreExistsError = FALSE
    /\ phase = 0
    /\ loopIndex = 0
    /\ firstFailure = NoError
    /\ loopError = NoError
    /\ suppressedIn = {}
    /\ notFound = {}
    /\ readErrors = {}
    /\ storeFailed = FALSE
    /\ setInvocations = <<>>
    /\ examined = NotExamined
    /\ tablePrefix = <<>>
    /\ lastOp = NoOp
    /\ opCount = 0
    /\ schema = <<>>
    /\ dispatched = NoAction
    /\ issued = <<>>
    /\ InitSide

\* version.json parses
Init ==
    /\ InitProgram
    /\ versionParses = TRUE

\* version.json parses, or it is cut short
InitVersionFile ==
    /\ InitProgram
    /\ versionParses \in BOOLEAN

\* the caller gets the outcome: throw err / return value
Outcome(err, value) ==
    IF err = NoError
    THEN [state |-> "resolved", error |-> NoError, value |-> value]
    ELSE [state |-> "rejected", error |-> err, value |-> value]

(* ------------------------------- upgrade ------------------------------- *)
\* JSON.parse throws on version.json
VersionJsonError == Err("SyntaxError", 0, 0)

\* a version.json that does not parse counts as version 0
GetLatestDbVersion_defaultsToZero(parses, data) ==
    [error |-> NoError, value |-> IF parses THEN data ELSE 0]

\* getLatestDbVersion: data['version'] of version.json, or the error of
\* reading it
GetLatestDbVersion(parses, data) ==
    IF parses THEN [error |-> NoError, value |-> data]
    ELSE [error |-> VersionJsonError, value |-> UNDEFINED]

\* upgrade, up to the version loop: schema.json, getCurrentDbVersion,
\* getLatestDbVersion.
UpgradeStart ==
    /\ pc = "idle"
    /\ UNCHANGED <<storeVars, actionVars, sideVars>>
    /\ examined' = NotExamined
    /\ \E failAt \in FailPoints :
        LET g == GetVersionCalls(tableExists) IN
        /\ calls' = calls \o IssuedCalls(g, failAt)
        /\ tableExists' = ExistsAfter(tableExists, g, failAt)
        /\ IF Succeeds(g, failAt, rows)
           THEN /\ originalVersion' = StoredVersion(rows)
                /\ currentVersion' = StoredVersion(rows)
                /\ saveVersion' = StoredVersion(rows)
                /\ LET latest == GetLatestDbVersion(versionParses, versionJson) IN
                   IF latest.error = NoError
                   THEN /\ latestVersion' = latest.value
                        /\ pc' = "loop"
                        /\ UNCHANGED <<thrown, storeFailed>>
                   ELSE /\ thrown' = latest.error
                        /\ pc' = "return"
                        /\ UNCHANGED <<latestVersion, storeFailed>>
           ELSE /\ thrown' = Err("driver", 0, 0)
                /\ storeFailed' = TRUE
                /\ pc' = "return"
                /\ UNCHANGED <<originalVersion, currentVersion, saveVersion, latestVersion>>
    /\ UNCHANGED <<versionJson, rows, upgradeSchemaLength, actionIndex, result,
                   installVars, firstFailure, loopError, suppressedIn, notFound,
                   readErrors, setInvocations>>

\* the file of the version already reached is read instead of the next one
TargetVersion_current(v) == ToNumber(v)

\* The file name 'upgrade.' + (currentVersion + 1) + '.json'
TargetVersion(v) == JsIncrement(v)

\* a missing file is treated like any other read error
IsNotFound_never(outcome) == FALSE

\* err.code === 'ENOENT'
IsNotFound(outcome) == outcome = "ENOENT"

\* the inner finally is missing: saveVersion keeps the version read at the start
SavedOnAbort_keepsOriginal(original, current) == original

\* the inner finally: saveVersion = currentVersion
SavedOnAbort(original, current) == current

\* while (currentVersion < latestVersion): read the next descriptor.
LoadDescriptor ==
    /\ pc = "loop"
    /\ UNCHANGED <<storeVars, actionVars, sideVars>>
    /\ examined' = NotExamined
    /\ JsLess(currentVersion, latestVersion)
    /\ \E outcome \in ReadOutcomes :
        /\ notFound' = IF outcome = "ENOENT"
                       THEN notFound \cup {TargetVersion(currentVersion)}
                       ELSE notFound
        /\ readErrors' = IF outcome \in {"ok", "ENOENT"} THEN readErrors
                         ELSE readErrors \cup {Err(outcome, TargetVersion(currentVersion), 0)}
        /\ CASE outcome = "ok" ->
                /\ upgradeSchemaLength' \in DescriptorLengths
                /\ actionIndex' = 1
                /\ pc' = "actions"
                /\ UNCHANGED <<currentVersion, thrown, saveVersion, loopError>>
             [] outcome # "ok" /\ IsNotFound(outcome) ->
                /\ currentVersion' = JsIncrement(currentVersion)
                /\ UNCHANGED <<pc, upgradeSchemaLength, actionIndex, thrown, saveVersion, loopError>>
             [] OTHER ->
                /\ thrown' = Err(outcome, TargetVersion(currentVersion), 0)
                /\ loopError' = Err(outcome, TargetVersion(currentVersion), 0)
                /\ saveVersion' = SavedOnAbort(originalVersion, currentVersion)
                /\ pc' = "finally"
                /\ UNCHANGED <<currentVersion, upgradeSchemaLength, actionIndex>>
    /\ UNCHANGED <<versionJson, dbVars, calls, originalVersion, latestVersion,
                   result, installVars, firstFailure, suppressedIn, storeFailed,
                   setInvocations>>

\* the bounds are not tested
OutOfBounds_never(action, original) == FALSE

\* the min_version / max_version tests in front of the switch
OutOfBounds(action, original) ==
    \/ Truthy(action.min_version) /\ JsLessEq(original, action.min_version)
    \/ Truthy(action.max_version) /\ JsLessEq(action.max_version, original)

\* softThrow without the ignore_errors test
SoftThrow_rethrows(err, action) == err

\* softThrow: the error that leaves it
SoftThrow(err, action) ==
    IF err # NoError /\ action.ignore_errors THEN NoError ELSE err

\* the throw is caught inside the for loop, which carries on
PcAfterThrow_continues == "actions"

\* where a throw inside the for loop goes: out of the while loop
PcAfterThrow == "finally"

\* m < o and o < M for the bounds the action carries
WithinExclusiveBounds(action, original) ==
    /\ action.min_version # UNDEFINED => JsLess(action.min_version, original)
    /\ action.max_version # UNDEFINED => JsLess(original, action.max_version)

\* for (let action of upgradeSchema): the next action and the
\* min_version / max_version tests, which continue or go on to the switch
ExamineAction ==
    /\ pc = "actions"
    /\ UNCHANGED <<storeVars, actionVars, sideVars>>
    /\ actionIndex <= upgradeSchemaLength
    /\ \E action \in ActionBounds :
       /\ examined' = [step |-> "bounds",
                       within |-> WithinExclusiveBounds(action, originalVersion),
                       softened |-> FALSE, answer |-> "none", second |-> "none"]
       /\ IF OutOfBounds(action, originalVersion)
          THEN /\ actionIndex' = actionIndex + 1
               /\ pc' = "actions"
          ELSE /\ pc' = "switch"
               /\ UNCHANGED actionIndex
    /\ UNCHANGED <<versionJson, dbVars, calls, originalVersion, currentVersion,
                   saveVersion, latestVersion, upgradeSchemaLength, thrown,
                   result, installVars, historyVars, setInvocations>>

\* switch (action['action']): the driver call of the action, or the error
\* of an action that names nothing known, and softThrow
ExecAction ==
    /\ pc = "switch"
    /\ UNCHANGED <<storeVars, actionVars, sideVars>>
    /\ \E action \in ActionSet, ok \in BOOLEAN :
       LET ignore == action.ignore_errors
           fault == action.fault
           version == TargetVersion(currentVersion)
           \* the error handed to softThrow
           err == IF fault # "none" THEN Err(fault, version, actionIndex)
                  ELSE IF ok THEN NoError
                  ELSE Err("driver", version, actionIndex)
           out == SoftThrow(err, action)
       IN
       /\ examined' = [step |-> "switch", within |-> FALSE,
                       softened |-> err # NoError /\ ignore, answer |-> "none", second |-> "none"]
       /\ calls' = IF fault # "none" THEN calls
                   ELSE Append(calls, Call("action", version, actionIndex))
       /\ suppressedIn' = IF err # NoError /\ ignore
                          THEN suppressedIn \cup {version} ELSE suppressedIn
       /\ firstFailure' = IF err # NoError /\ ~ignore /\ firstFailure = NoError
                          THEN err ELSE firstFailure
       /\ IF out = NoError
          THEN /\ actionIndex' = actionIndex + 1
               /\ pc' = "actions"
               /\ UNCHANGED <<thrown, saveVersion, loopError>>
          ELSE /\ thrown' = out
               /\ loopError' = out
               /\ saveVersion' = SavedOnAbort(originalVersion, currentVersion)
               /\ pc' = PcAfterThrow
               /\ UNCHANGED <<actionIndex>>
    /\ UNCHANGED <<versionJson, dbVars, originalVersion, currentVersion,
                   latestVersion, upgradeSchemaLength, result, installVars,
                   notFound, readErrors, storeFailed, setInvocations>>

\* every completed version is written to the version row
RowsAfterVersion_persisted(rs, version) ==
    {IF r.key = VersionKey THEN [r EXCEPT !.value = NumberToString(version)] ELSE r :
        r \in rs}

\* the rows of schema_globals after the last action of a version: the
\* loop goes on with currentVersion++ and writes nothing
RowsAfterVersion(rs, version) == rs

\* the for loop has run out of actions: currentVersion++
VersionDone ==
    /\ pc = "actions"
    /\ UNCHANGED <<storeVars, actionVars, sideVars>>
    /\ examined' = NotExamined
    /\ actionIndex > upgradeSchemaLength
    /\ currentVersion' = JsIncrement(currentVersion)
    /\ rows' = RowsAfterVersion(rows, currentVersion')
    /\ upgradeSchemaLength' = 0
    /\ actionIndex' = 0
    /\ pc' = "loop"
    /\ UNCHANGED <<versionJson, tableExists, calls, originalVersion, saveVersion,
                   latestVersion, thrown, result, installVars, historyVars,
                   setInvocations>>

\* the while condition is false: inner finally, then saveVersion = latestVersion
LoopExit ==
    /\ pc = "loop"
    /\ UNCHANGED <<storeVars, actionVars, sideVars>>
    /\ examined' = NotExamined
    /\ ~JsLess(currentVersion, latestVersion)
    /\ saveVersion' = latestVersion
    /\ pc' = "finally"
    /\ UNCHANGED <<versionJson, dbVars, calls, originalVersion, currentVersion,
                   latestVersion, upgradeSchemaLength, actionIndex, thrown, result,
                   installVars, historyVars, setInvocations>>

\* the outer finally without its test
NeedsSave_always(save, original) == TRUE

\* the outer finally: if (saveVersion !== originalVersion)
NeedsSave(save, original) == save # original

\* an exception of the finally block takes the place of the pending one
ThrownAfterFinally(pending, succeeded) ==
    IF succeeded THEN pending ELSE Err("driver", 0, 0)

SaveVersion ==
    /\ pc = "finally"
    /\ UNCHANGED <<storeVars, actionVars, sideVars>>
    /\ examined' = NotExamined
    /\ IF NeedsSave(saveVersion, originalVersion)
       THEN \E failAt \in FailPoints :
            LET cs == SetVersionCalls(tableExists, rows, saveVersion) IN
            /\ calls' = calls \o IssuedCalls(cs, failAt)
            /\ rows' = RowsAfterSet(rows, saveVersion, cs, failAt)
            /\ tableExists' = ExistsAfter(tableExists, cs, failAt)
            /\ thrown' = ThrownAfterFinally(thrown, Succeeds(cs, failAt, rows))
            /\ storeFailed' = (storeFailed \/ ~Succeeds(cs, failAt, rows))
            /\ setInvocations' = Append(setInvocations, saveVersion)
       ELSE UNCHANGED <<calls, rows, tableExists, thrown, storeFailed, setInvocations>>
    /\ pc' = "return"
    /\ UNCHANGED <<versionJson, originalVersion, currentVersion, saveVersion,
                   latestVersion, upgradeSchemaLength, actionIndex, result,
                   installVars, firstFailure, loopError, suppressedIn, notFound,
                   readErrors>>

\* throw err / return saveVersion
Return ==
    /\ pc = "return"
    /\ UNCHANGED <<storeVars, actionVars, sideVars>>
    /\ examined' = NotExamined
    /\ result' = Outcome(thrown, saveVersion)
    /\ pc' = "done"
    /\ UNCHANGED <<versionJson, dbVars, calls, upgradeVars, latestVersion,
                   thrown, installVars, historyVars, setInvocations>>

Next ==
    \/ UpgradeStart
    \/ LoadDescriptor
    \/ ExamineAction
    \/ ExecAction
    \/ VersionDone
    \/ LoopExit
    \/ SaveVersion
    \/ Return

Spec == Init /\ [][Next]_vars

(* ------------------------- the switch, in detail ----------------------- *)
\* createTableIndexes does not look the table up
LooksUpTable_withoutIndexes == {"createTable", "createTableForeignKeys",
                                "addColumn", "alterColumn"}

\* the cases that look the table up: if (schema[action['table']])
LooksUpTable == {"createTable", "createTableIndexes", "createTableForeignKeys",
                 "addColumn", "alterColumn"}

\* the cases that look the column up: columns.find(...), if (column)
LooksUpColumn == {"addColumn", "alterColumn"}

\* columns.indexOf(columns.find(item => item['name'] === name)) + 1,
\* 0 when find returns undefined
RECURSIVE IndexOf(_, _, _)
IndexOf(columns, name, i) ==
    IF i > Len(columns) THEN 0
    ELSE IF columns[i] = name THEN i
    ELSE IndexOf(columns, name, i + 1)

\* what the switch throws at softThrow before any driver call
SwitchFault(act, sch) ==
    IF act.action \notin Kinds THEN "unknown-action"
    ELSE IF act.action \in LooksUpTable /\ act.table \notin DOMAIN sch THEN "unknown-table"
    ELSE IF act.action \in LooksUpColumn /\ IndexOf(sch[act.table], act.column, 1) = 0
         THEN "unknown-column"
    ELSE "none"

\* the column is always put first
Position_alwaysFirst(columns, i) == [where |-> "first", column |-> ""]

\* prevColumn = columns[columns.indexOf(column) - 1];
\* if (prevColumn) pendingCol.after(prevColumn['name']); else pendingCol.first();
Position(columns, i) ==
    IF i > 1 THEN [where |-> "after", column |-> columns[i - 1]]
    ELSE [where |-> "first", column |-> ""]

NoPosition == [where |-> "none", column |-> ""]

\* the table name is passed on without the prefix
Prefixed_bare(prefix, name) == name

\* _tablePrefix + name
Prefixed(prefix, name) == prefix \o name

\* The driver call of an action: db.raw, db.schema.createTable,
\* db.schema.dropTableIfExists or db.schema.table with the change it makes.
DriverCall(act, sch, prefix, positioned) ==
    [op |-> CASE act.action = "execute" -> "raw"
              [] act.action = "createTable" -> "createTable"
              [] act.action = "dropTable" -> "dropTableIfExists"
              [] OTHER -> "table",
     change |-> act.action,
     table |-> Prefixed(prefix, act.table),
     column |-> IF act.action \in {"addColumn", "alterColumn", "dropColumn"}
                THEN act.column ELSE "",
     alter |-> act.action = "alterColumn",
     position |-> IF act.action \in LooksUpColumn /\ positioned
                  THEN Position(sch[act.table], IndexOf(sch[act.table], act.column, 1))
                  ELSE NoPosition,
     references |-> IF act.action \in {"createForeign", "createTableForeignKeys"}
                    THEN Prefixed(prefix, ForeignTable) ELSE <<>>]

\* how the driver can answer a call of the switch
SwitchOutcomes == {"ok", "ER_BAD_FIELD_ERROR", "other"}

\* the call is repeated as it was, position included
SwitchCalls_repeatsPositioned(act, sch, prefix, first) ==
    IF act.action \in LooksUpColumn /\ first = "ER_BAD_FIELD_ERROR"
    THEN <<DriverCall(act, sch, prefix, TRUE), DriverCall(act, sch, prefix, TRUE)>>
    ELSE <<DriverCall(act, sch, prefix, TRUE)>>

\* the calls the switch issues for the driver's answers first and second:
\* addColumn and alterColumn repeat the call without the position when the
\* first answer is ER_BAD_FIELD_ERROR
SwitchCalls(act, sch, prefix, first) ==
    IF act.action \in LooksUpColumn /\ first = "ER_BAD_FIELD_ERROR"
    THEN <<DriverCall(act, sch, prefix, TRUE), DriverCall(act, sch, prefix, FALSE)>>
    ELSE <<DriverCall(act, sch, prefix, TRUE)>>

\* the answer that reaches .catch(softThrow)
SwitchAnswer(act, first, second) ==
    IF act.action \in LooksUpColumn /\ first = "ER_BAD_FIELD_ERROR" THEN second ELSE first

\* the version rows other prefixes have left in schema_globals
OtherRows(prefix) ==
    {{}} \cup {{[key |-> KeyOf(q), value |-> NumberToString(MaxVersion)]} :
               q \in Prefixes \ {prefix}}

\* an upgrade that has reached the switch for the first action of
\* upgrade.1.json, with a version row of 0 and version.json at 1
InitAction ==
    /\ pc = "switch"
    /\ tablePrefix \in Prefixes
    /\ versionJson = 1
    /\ tableExists = TRUE
    /\ \E others \in OtherRows(tablePrefix) :
          rows = {[key |-> KeyOf(tablePrefix), value |-> NumberToString(0)]} \cup others
    /\ calls = GetVersionCalls(TRUE)
    /\ originalVersion = 0
    /\ currentVersion = 0
    /\ saveVersion = 0
    /\ latestVersion = 1
    /\ upgradeSchemaLength = 1
    /\ actionIndex = 1
    /\ thrown = NoError
    /\ result = Pending
    /\ dbTables = 0
    /\ dbRawQueries = <<>>
    /\ ignoreExistsError = FALSE
    /\ phase = 0
    /\ loopIndex = 0
    /\ firstFailure = NoError
    /\ loopError = NoError
    /\ suppressedIn = {}
    /\ notFound = {}
    /\ readErrors = {}
    /\ storeFailed = FALSE
    /\ setInvocations = <<>>
    /\ examined = [step |-> "bounds", within |-> TRUE, softened |-> FALSE,
                   answer |-> "none", second |-> "none"]
    /\ lastOp = NoOp
    /\ opCount = 0
    /\ schema \in [DeclaredTables -> ColumnLists]
    /\ dispatched \in DetailedActions
    /\ issued = <<>>
    /\ InitSide
    /\ versionParses = TRUE

\* switch (action['action']) for the action dispatched
DispatchAction ==
    /\ pc = "switch"
    /\ dispatched # NoAction
    /\ \E first \in SwitchOutcomes, second \in SwitchOutcomes :
       LET fault == SwitchFault(dispatched, schema)
           version == TargetVersion(currentVersion)
           answer == SwitchAnswer(dispatched, first, second)
           \* the error handed to softThrow
           err == IF fault # "none" THEN Err(fault, version, actionIndex)
                  ELSE IF answer = "ok" THEN NoError
                  ELSE Err("driver", version, actionIndex)
           out == SoftThrow(err, dispatched)
       IN
       /\ issued' = IF fault # "none" THEN <<>>
                    ELSE SwitchCalls(dispatched, schema, tablePrefix, first)
       /\ calls' = IF fault # "none" THEN calls
                   ELSE Append(calls, Call("action", version, actionIndex))
       /\ examined' = [step |-> "switch", within |-> FALSE,
                       softened |-> err # NoError /\ dispatched.ignore_errors,
                       answer |-> IF fault # "none" THEN "none" ELSE first,
                       second |-> IF fault = "none" /\ Len(issued') = 2
                                  THEN second ELSE "none"]
       /\ suppressedIn' = IF err # NoError /\ dispatched.ignore_errors
                          THEN suppressedIn \cup {version} ELSE suppressedIn
       /\ firstFailure' = IF err # NoError /\ ~dispatched.ignore_errors
                             /\ firstFailure = NoError
                          THEN err ELSE firstFailure
       /\ IF out = NoError
          THEN /\ actionIndex' = actionIndex + 1
               /\ pc' = "actions"
               /\ UNCHANGED <<thrown, saveVersion, loopError>>
          ELSE /\ thrown' = out
               /\ loopError' = out
               /\ saveVersion' = SavedOnAbort(originalVersion, currentVersion)
               /\ pc' = PcAfterThrow
               /\ UNCHANGED <<actionIndex>>
    /\ UNCHANGED <<versionJson, dbVars, originalVersion, currentVersion,
                   latestVersion, upgradeSchemaLength, result, installVars,
                   notFound, readErrors, storeFailed, setInvocations, storeVars,
                   schema, dispatched, sideVars>>

NextAction ==
    \/ DispatchAction
    \/ VersionDone
    \/ LoopExit
    \/ SaveVersion
    \/ Return

SpecAction == InitAction /\ [][NextAction]_vars

(* ------------------------------- install ------------------------------- *)
\* the index loop moved in front of the raw queries
InstallPhases_indexesBeforeRaw == <<"createTable", "createTableIndexes", "raw", "createTableForeignKeys">>

\* The loops of install, in the order they are written: createTable for
\* every table, the raw queries, createTableIndexes and
\* createTableForeignKeys for every table.
InstallPhases == <<"createTable", "raw", "createTableIndexes", "createTableForeignKeys">>

\* how many iterations the loop of phase p has
PhaseLength(p, tables, raw) == IF InstallPhases[p] = "raw" THEN Len(raw) ELSE tables

\* install, up to its first loop: getLatestDbVersion and schema.json
InstallStart ==
    /\ pc = "idle"
    /\ UNCHANGED <<storeVars, actionVars, sideVars>>
    /\ examined' = NotExamined
    /\ ignoreExistsError' \in BOOLEAN
    /\ LET latest == GetLatestDbVersion(versionParses, versionJson) IN
       IF latest.error = NoError
       THEN /\ latestVersion' = latest.value
            /\ dbTables' \in 0..MaxTables
            /\ dbRawQueries' \in RawLists
            /\ phase' = 1
            /\ loopIndex' = 1
            /\ pc' = "install"
            /\ UNCHANGED thrown
       ELSE /\ thrown' = latest.error
            /\ pc' = "installReturn"
            /\ UNCHANGED <<latestVersion, dbTables, dbRawQueries, phase, loopIndex>>
    /\ UNCHANGED <<versionJson, dbVars, calls, upgradeVars, result,
                   historyVars, setInvocations>>

\* err.code cut at its underscores; a thrown string has no code, and the
\* pattern is tested against 'undefined'
CodeTokens(err) ==
    CASE err.kind = "ER_TABLE_EXISTS_ERROR" -> <<"ER", "TABLE", "EXISTS", "ERROR">>
      [] err.kind = "ER_DUP_KEYNAME" -> <<"ER", "DUP", "KEYNAME">>
      [] err.kind = "42P07" -> <<"42P07">>
      [] err.kind = "ER_NO_SUCH_TABLE" -> <<"ER", "NO", "SUCH", "TABLE">>
      [] err.kind = "ER_DB_DROP_EXISTS" -> <<"ER", "DB", "DROP", "EXISTS">>
      [] OTHER -> <<"undefined">>

\* /(\b|_)(exists|duplicate|dup)(\b|_)/i.test(err.code)
MatchesExists(err) ==
    \E i \in 1..Len(CodeTokens(err)) :
        CodeTokens(err)[i] \in {"EXISTS", "DUPLICATE", "DUP"}

\* every error is swallowed
DefaultErrorHandler_ignoresAll(ignoreExists, err) == NoError

\* defaultErrorHandler(ignoreExistsError): the error that leaves it
DefaultErrorHandler(ignoreExists, err) ==
    IF ignoreExists /\ MatchesExists(err) THEN NoError ELSE err

\* the driver call of a table is issued for any columns
IssuesCall_beforeColumns(fault) == TRUE

\* createTable: the callback that builds the columns runs while the
\* statement is built; when createColumn throws, no call is issued
IssuesCall(fault) == fault = "none"

\* the index and foreign key loops throw a new Error('Failed to create ...')
WrapError(p, err) ==
    IF InstallPhases[p] = "createTableIndexes" THEN Err("failed-indexes", p, err.index)
    ELSE IF InstallPhases[p] = "createTableForeignKeys" THEN Err("failed-foreign-keys", p, err.index)
    ELSE err

\* if (rawQuery && typeof (rawQuery) === 'string'), after the join of lines
IsQuery(rawQuery) == rawQuery \in {"string", "lines"}

\* one iteration of the loop of the current phase
InstallCall ==
    /\ pc = "install"
    /\ UNCHANGED <<storeVars, actionVars, sideVars>>
    /\ phase <= Len(InstallPhases)
    /\ loopIndex <= PhaseLength(phase, dbTables, dbRawQueries)
    /\ IF InstallPhases[phase] = "raw" /\ ~IsQuery(dbRawQueries[loopIndex])
       THEN /\ loopIndex' = loopIndex + 1
            /\ examined' = NotExamined
            /\ UNCHANGED <<pc, calls, thrown>>
       ELSE \E outcome \in DriverOutcomes,
               fault \in IF InstallPhases[phase] = "createTable"
                         THEN ColumnFaults ELSE {"none"} :
            LET err == IF fault # "none" THEN Err(fault, phase, loopIndex)
                       ELSE IF outcome = "ok" THEN NoError
                       ELSE Err(outcome, phase, loopIndex)
                out == DefaultErrorHandler(ignoreExistsError, err)
            IN
            /\ fault # "none" => outcome = "ok"
            /\ calls' = IF IssuesCall(fault)
                        THEN Append(calls, Call(InstallPhases[phase], loopIndex, 0))
                        ELSE calls
            /\ examined' = [step |-> "install", within |-> FALSE,
                            softened |-> err # NoError /\ out = NoError,
                            answer |-> IF fault # "none" THEN fault ELSE outcome,
                            second |-> "none"]
            /\ IF out = NoError
               THEN /\ loopIndex' = loopIndex + 1
                    /\ UNCHANGED <<pc, thrown>>
               ELSE /\ thrown' = WrapError(phase, out)
                    /\ pc' = "installReturn"
                    /\ UNCHANGED loopIndex
    /\ UNCHANGED <<versionJson, dbVars, upgradeVars, latestVersion, result,
                   dbTables, dbRawQueries, ignoreExistsError, phase,
                   historyVars, setInvocations>>

\* the loop of the current phase has run out: on to the next loop
InstallNextPhase ==
    /\ pc = "install"
    /\ UNCHANGED <<storeVars, actionVars, sideVars>>
    /\ examined' = NotExamined
    /\ phase <= Len(InstallPhases)
    /\ loopIndex > PhaseLength(phase, dbTables, dbRawQueries)
    /\ phase' = phase + 1
    /\ loopIndex' = 1
    /\ UNCHANGED <<pc, versionJson, dbVars, calls, upgradeVars, latestVersion,
                   thrown, result, dbTables, dbRawQueries, ignoreExistsError,
                   historyVars, setInvocations>>

\* await setCurrentDbVersion(db, version)
InstallSetVersion ==
    /\ pc = "install"
    /\ UNCHANGED <<storeVars, actionVars, sideVars>>
    /\ examined' = NotExamined
    /\ phase > Len(InstallPhases)
    /\ \E failAt \in FailPoints :
        LET cs == SetVersionCalls(tableExists, rows, latestVersion) IN
        /\ calls' = calls \o IssuedCalls(cs, failAt)
        /\ rows' = RowsAfterSet(rows, latestVersion, cs, failAt)
        /\ tableExists' = ExistsAfter(tableExists, cs, failAt)
        /\ thrown' = IF Succeeds(cs, failAt, rows) THEN NoError ELSE Err("driver", 0, 0)
        /\ storeFailed' = ~Succeeds(cs, failAt, rows)
        /\ setInvocations' = Append(setInvocations, latestVersion)
    /\ pc' = "installReturn"
    /\ UNCHANGED <<versionJson, upgradeVars, latestVersion, result, installVars,
                   firstFailure, loopError, suppressedIn, notFound, readErrors>>

\* throw err / callback(null, version)
InstallReturn ==
    /\ pc = "installReturn"
    /\ UNCHANGED <<storeVars, actionVars, sideVars>>
    /\ examined' = NotExamined
    /\ result' = Outcome(thrown, latestVersion)
    /\ pc' = "done"
    /\ UNCHANGED <<versionJson, dbVars, calls, upgradeVars, latestVersion,
                   thrown, installVars, historyVars, setInvocations>>

NextInstall ==
    \/ InstallStart
    \/ InstallCall
    \/ InstallNextPhase
    \/ InstallSetVersion
    \/ InstallReturn

SpecInstall == Init /\ [][NextInstall]_vars

\* install or upgrade, with version.json as it is found
NextVersionFile ==
    \/ Next
    \/ NextInstall

SpecVersionFile == InitVersionFile /\ [][NextVersionFile]_vars

(* ---------------------------- version store --------------------------- *)
\* setTablePrefix(prefix)
SetTablePrefix ==
    /\ pc = "idle"
    /\ UNCHANGED <<actionVars, sideVars>>
    /\ \E prefix \in Prefixes :
        /\ tablePrefix' = prefix
        /\ lastOp' = [op |-> "setTablePrefix", arg |-> prefix, ok |-> TRUE,
                      value |-> prefix, failed |-> 0]
    /\ UNCHANGED <<pc, versionJson, dbVars, calls, upgradeVars, latestVersion,
                   thrown, result, installVars, historyVars, setInvocations,
                   examined, opCount>>

\* what a version store operation that issues the calls cs returns to its
\* caller; failed is the call the driver failed (0: none)
Returned(op, arg, cs, failAt, rs, value) ==
    [op |-> op, arg |-> arg, ok |-> Succeeds(cs, failAt, rs),
     value |-> IF Succeeds(cs, failAt, rs) THEN value ELSE UNDEFINED,
     failed |-> IF failAt \in 1..Len(cs) THEN failAt ELSE 0]

\* getCurrentDbVersion(db)
GetCurrentDbVersion ==
    /\ pc = "idle"
    /\ UNCHANGED <<actionVars, sideVars>>
    /\ opCount < MaxOps
    /\ \E failAt \in FailPoints :
        LET g == GetVersionCalls(tableExists) IN
        /\ calls' = calls \o IssuedCalls(g, failAt)
        /\ tableExists' = ExistsAfter(tableExists, g, failAt)
        /\ lastOp' = Returned("getCurrentDbVersion", 0, g, failAt, rows,
                              StoredVersion(rows))
    /\ opCount' = opCount + 1
    /\ UNCHANGED <<pc, versionJson, rows, upgradeVars, latestVersion, thrown,
                   result, installVars, historyVars, setInvocations, examined,
                   tablePrefix>>

\* setCurrentDbVersion(db, version)
SetCurrentDbVersion ==
    /\ pc = "idle"
    /\ UNCHANGED <<actionVars, sideVars>>
    /\ opCount < MaxOps
    /\ \E version \in 0..MaxVersion, failAt \in FailPoints :
        LET cs == SetVersionCalls(tableExists, rows, version) IN
        /\ calls' = calls \o IssuedCalls(cs, failAt)
        /\ rows' = RowsAfterSet(rows, version, cs, failAt)
        /\ tableExists' = ExistsAfter(tableExists, cs, failAt)
        /\ lastOp' = Returned("setCurrentDbVersion", version, cs, failAt, rows,
                              version)
        /\ setInvocations' = Append(setInvocations, version)
    /\ opCount' = opCount + 1
    /\ UNCHANGED <<pc, versionJson, upgradeVars, latestVersion, thrown, result,
                   installVars, historyVars, examined, tablePrefix>>

\* a version of 0 counts as no version
InstallNeeded_falsy(version) == ~Truthy(version)

\* isInstallNeeded: ret = version === null
InstallNeeded(version) == version = NULL

\* the comparison is not strict
UpgradeNeeded_orEqual(dbVer, latest) == JsLessEq(dbVer, latest)

\* isUpgradeNeeded: ret = dbVer < latestVersion
UpgradeNeeded(dbVer, latest) == JsLess(dbVer, latest)

\* isInstallNeeded(db, schemaPath)
IsInstallNeeded ==
    /\ pc = "idle"
    /\ UNCHANGED <<actionVars, sideVars>>
    /\ opCount < MaxOps
    /\ \E failAt \in FailPoints :
        LET g == GetVersionCalls(tableExists) IN
        /\ calls' = calls \o IssuedCalls(g, failAt)
        /\ tableExists' = ExistsAfter(tableExists, g, failAt)
        /\ lastOp' = Returned("isInstallNeeded", 0, g, failAt, rows,
                              InstallNeeded(StoredVersion(rows)))
    /\ opCount' = opCount + 1
    /\ UNCHANGED <<pc, versionJson, rows, upgradeVars, latestVersion, thrown,
                   result, installVars, historyVars, setInvocations, examined,
                   tablePrefix>>

\* isUpgradeNeeded(db, schemaPath)
IsUpgradeNeeded ==
    /\ pc = "idle"
    /\ UNCHANGED <<actionVars, sideVars>>
    /\ opCount < MaxOps
    /\ \E failAt \in FailPoints :
        LET g == GetVersionCalls(tableExists) IN
        /\ calls' = calls \o IssuedCalls(g, failAt)
        /\ tableExists' = ExistsAfter(tableExists, g, failAt)
        /\ lastOp' = Returned("isUpgradeNeeded", 0, g, failAt, rows,
                              UpgradeNeeded(StoredVersion(rows), versionJson))
    /\ opCount' = opCount + 1
    /\ UNCHANGED <<pc, versionJson, rows, upgradeVars, latestVersion, thrown,
                   result, installVars, historyVars, setInvocations, examined,
                   tablePrefix>>

NextStore ==
    \/ SetTablePrefix
    \/ GetCurrentDbVersion
    \/ SetCurrentDbVersion
    \/ IsInstallNeeded
    \/ IsUpgradeNeeded

SpecStore == Init /\ [][NextStore]_vars

(* ------------------ install and upgrade, call by call ------------------ *)
\* the call is issued and its promise is not awaited
AfterIssue_notAwaited(site) == site

\* await: the function goes on when the call it has issued is answered
AfterIssue(site) ==
    CASE site = "store" -> "storeAwait"
      [] site = "switch" -> "switchAwait"
      [] site = "install" -> "installAwait"

\* getCurrentDbVersion (op "get") or setCurrentDbVersion(version) (op "set")
\* called from upgrade, from its outer finally (back "save") or from install
StartChain(op, version, back) ==
    [op |-> op, next |-> "hasTable", version |-> version, found |-> UNDEFINED,
     back |-> back]

\* the driver call the version store issues next
StoreCall(c) ==
    CASE c.next = "hasTable" -> Call("hasTable", 0, 0)
      [] c.next = "createGlobals" -> Call("createGlobals", 0, 0)
      [] c.next = "select" -> Call("select", 0, 0)
      [] c.next = "write" -> Call(IF InsertsRow(c.found) THEN "insert" ELSE "update",
                                  0, c.version)

\* the call the version store issues after call c has succeeded
NextStoreCall(c, op, exists) ==
    CASE c.op = "hasTable" -> IF exists THEN "select" ELSE "createGlobals"
      [] c.op = "createGlobals" -> "select"
      [] c.op = "select" -> IF op = "get" THEN "end" ELSE "write"
      [] OTHER -> "end"

\* the descriptors read while the calls are followed one by one
AwaitDescriptor ==
    /\ LoadDescriptor
    /\ upgradeSchemaLength' \in 0..MaxAwaited

\* upgrade: await getCurrentDbVersion(db)
UpgradeBegin ==
    /\ pc = "idle"
    /\ chain' = StartChain("get", UNDEFINED, "upgrade")
    /\ pc' = "store"
    /\ examined' = NotExamined
    /\ UNCHANGED <<versionJson, dbVars, calls, upgradeVars, latestVersion, thrown,
                   result, installVars, historyVars, setInvocations, storeVars,
                   actionVars, inFlight,
                   sideButAwait>>

\* the version store issues its next call
StoreIssue ==
    /\ pc = "store"
    /\ chain.next # "end"
    /\ calls' = Append(calls, StoreCall(chain))
    /\ inFlight' = Append(inFlight, StoreCall(chain))
    /\ pc' = AfterIssue("store")
    /\ examined' = NotExamined
    /\ UNCHANGED <<versionJson, dbVars, upgradeVars, latestVersion, thrown, result,
                   installVars, historyVars, setInvocations, storeVars, actionVars,
                   chain, sideButAwait>>

\* the call of the version store is answered; the operation goes on to its
\* next call or returns to upgrade or install
StoreSettle ==
    /\ pc = "storeAwait"
    /\ inFlight # <<>>
    /\ \E ok \in BOOLEAN :
       LET c == Head(inFlight)
           succeeded == ok /\ ~(c.op = "insert" /\ VersionRows(rows) # {})
           next == IF succeeded THEN NextStoreCall(c, chain.op, tableExists) ELSE "end"
       IN
       /\ inFlight' = Tail(inFlight)
       /\ tableExists' = (tableExists \/ (succeeded /\ c.op = "createGlobals"))
       /\ rows' = IF succeeded /\ c.op = "insert"
                  THEN rows \cup {[key |-> VersionKey, value |-> NumberToString(c.b)]}
                  ELSE IF succeeded /\ c.op = "update"
                  THEN {IF r.key = VersionKey
                        THEN [r EXCEPT !.value = NumberToString(c.b)] ELSE r : r \in rows}
                  ELSE rows
       /\ storeFailed' = (storeFailed \/ ~succeeded)
       /\ setInvocations' = IF c.op \in {"insert", "update"}
                            THEN Append(setInvocations, c.b) ELSE setInvocations
       /\ IF next # "end"
          THEN /\ chain' = [chain EXCEPT !.next = next,
                                         !.found = IF c.op = "select"
                                                   THEN StoredVersion(rows) ELSE @]
               /\ pc' = "store"
               /\ UNCHANGED <<originalVersion, currentVersion, saveVersion,
                              latestVersion, thrown>>
          ELSE /\ chain' = NoChain
               /\ CASE chain.back = "upgrade" /\ succeeded ->
                         /\ originalVersion' = StoredVersion(rows)
                         /\ currentVersion' = StoredVersion(rows)
                         /\ saveVersion' = StoredVersion(rows)
                         /\ latestVersion' = versionJson
                         /\ pc' = "loop"
                         /\ UNCHANGED thrown
                    [] chain.back = "upgrade" /\ ~succeeded ->
                         /\ thrown' = Err("driver", 0, 0)
                         /\ pc' = "return"
                         /\ UNCHANGED <<originalVersion, currentVersion, saveVersion,
                                        latestVersion>>
                    [] chain.back = "save" ->
                         /\ thrown' = ThrownAfterFinally(thrown, succeeded)
                         /\ pc' = "return"
                         /\ UNCHANGED <<originalVersion, currentVersion, saveVersion,
                                        latestVersion>>
                    [] OTHER ->
                         /\ thrown' = IF succeeded THEN NoError ELSE Err("driver", 0, 0)
                         /\ pc' = "installReturn"
                         /\ UNCHANGED <<originalVersion, currentVersion, saveVersion,
                                        latestVersion>>
    /\ examined' = NotExamined
    /\ UNCHANGED <<versionJson, calls, upgradeSchemaLength, actionIndex, result,
                   installVars, firstFailure, loopError, suppressedIn, notFound,
                   readErrors, storeVars, actionVars, sideButAwait>>

\* what follows the error err handed to softThrow (the history of the
\* failed actions is not kept call by call)
AfterSoftThrow(err, ignore) ==
    LET out == SoftThrow(err, [ignore_errors |-> ignore]) IN
    /\ UNCHANGED <<suppressedIn, firstFailure>>
    /\ IF out = NoError
       THEN /\ actionIndex' = actionIndex + 1
            /\ pc' = "actions"
            /\ UNCHANGED <<thrown, saveVersion, loopError>>
       ELSE /\ thrown' = out
            /\ loopError' = out
            /\ saveVersion' = SavedOnAbort(originalVersion, currentVersion)
            /\ pc' = PcAfterThrow
            /\ UNCHANGED <<actionIndex>>

\* switch (action['action']): the driver call of the action is issued, or
\* the action names nothing known and softThrow is called at once
ActionIssue ==
    /\ pc = "switch"
    /\ \E fault \in Faults, ignore \in BOOLEAN :
       IF fault # "none"
       THEN /\ AfterSoftThrow(Err(fault, TargetVersion(currentVersion), actionIndex),
                              ignore)
            /\ UNCHANGED <<calls, inFlight>>
       ELSE /\ ~ignore
            /\ calls' = Append(calls, Call("action", TargetVersion(currentVersion),
                                           actionIndex))
            /\ inFlight' = Append(inFlight, Call("action", TargetVersion(currentVersion),
                                                 actionIndex))
            /\ pc' = AfterIssue("switch")
            /\ UNCHANGED <<thrown, saveVersion, loopError, actionIndex, suppressedIn,
                           firstFailure>>
    /\ examined' = NotExamined
    /\ UNCHANGED <<versionJson, dbVars, originalVersion, currentVersion,
                   latestVersion, upgradeSchemaLength, result, installVars,
                   notFound, readErrors, storeFailed, setInvocations, storeVars,
                   actionVars, chain,
                   sideButAwait>>

\* the call of the action is answered: addColumn and alterColumn issue the
\* call again, without the position, on ER_BAD_FIELD_ERROR; any other
\* answer goes to softThrow
ActionSettle ==
    /\ pc = "switchAwait"
    /\ inFlight # <<>>
    /\ \E answer \in SwitchOutcomes, ignore \in BOOLEAN, column \in BOOLEAN :
       LET c == Head(inFlight) IN
       IF answer = "ER_BAD_FIELD_ERROR" /\ column /\ c.op = "action"
       THEN /\ ~ignore
            /\ calls' = Append(calls, Call("retry", c.a, c.b))
            /\ inFlight' = Append(Tail(inFlight), Call("retry", c.a, c.b))
            /\ pc' = AfterIssue("switch")
            /\ UNCHANGED <<thrown, saveVersion, loopError, actionIndex, suppressedIn,
                           firstFailure>>
       ELSE /\ ~column
            /\ inFlight' = Tail(inFlight)
            /\ AfterSoftThrow(IF answer = "ok" THEN NoError
                              ELSE Err("driver", c.a, c.b), ignore)
            /\ UNCHANGED calls
    /\ examined' = NotExamined
    /\ UNCHANGED <<versionJson, dbVars, originalVersion, currentVersion,
                   latestVersion, upgradeSchemaLength, result, installVars,
                   notFound, readErrors, storeFailed, setInvocations, storeVars,
                   actionVars, chain,
                   sideButAwait>>

\* the outer finally: await setCurrentDbVersion(db, saveVersion) if the
\* version has changed
SaveBegin ==
    /\ pc = "finally"
    /\ IF NeedsSave(saveVersion, originalVersion)
       THEN /\ chain' = StartChain("set", saveVersion, "save")
            /\ pc' = "store"
       ELSE /\ pc' = "return"
            /\ UNCHANGED chain
    /\ examined' = NotExamined
    /\ UNCHANGED <<versionJson, dbVars, calls, upgradeVars, latestVersion, thrown,
                   result, installVars, historyVars, setInvocations, storeVars,
                   actionVars, inFlight,
                   sideButAwait>>

\* one iteration of a loop of install: its driver call is issued
InstallIssue ==
    /\ pc = "install"
    /\ phase <= Len(InstallPhases)
    /\ loopIndex <= PhaseLength(phase, dbTables, dbRawQueries)
    /\ IF InstallPhases[phase] = "raw" /\ ~IsQuery(dbRawQueries[loopIndex])
       THEN /\ loopIndex' = loopIndex + 1
            /\ UNCHANGED <<pc, calls, thrown, inFlight>>
       ELSE \E fault \in IF InstallPhases[phase] = "createTable"
                         THEN ColumnFaults ELSE {"none"} :
            IF IssuesCall(fault)
            THEN /\ calls' = Append(calls, Call(InstallPhases[phase], loopIndex, 0))
                 /\ inFlight' = Append(inFlight, Call(InstallPhases[phase], loopIndex, 0))
                 /\ pc' = AfterIssue("install")
                 /\ UNCHANGED <<thrown, loopIndex>>
            ELSE /\ thrown' = Err(fault, phase, loopIndex)
                 /\ pc' = "installReturn"
                 /\ UNCHANGED <<calls, inFlight, loopIndex>>
    /\ examined' = NotExamined
    /\ UNCHANGED <<versionJson, dbVars, upgradeVars, latestVersion, result,
                   dbTables, dbRawQueries, ignoreExistsError, phase,
                   historyVars, setInvocations, storeVars, actionVars, chain,
                   sideButAwait>>

\* the call of the iteration is answered
InstallSettle ==
    /\ pc = "installAwait"
    /\ inFlight # <<>>
    /\ \E outcome \in DriverOutcomes :
       LET c == Head(inFlight)
           err == IF outcome = "ok" THEN NoError ELSE Err(outcome, phase, c.a)
           out == DefaultErrorHandler(ignoreExistsError, err)
       IN
       /\ inFlight' = Tail(inFlight)
       /\ IF out = NoError
          THEN /\ loopIndex' = loopIndex + 1
               /\ pc' = "install"
               /\ UNCHANGED thrown
          ELSE /\ thrown' = WrapError(phase, out)
               /\ pc' = "installReturn"
               /\ UNCHANGED loopIndex
    /\ examined' = NotExamined
    /\ UNCHANGED <<versionJson, dbVars, calls, upgradeVars, latestVersion, result,
                   dbTables, dbRawQueries, ignoreExistsError, phase,
                   historyVars, setInvocations, storeVars, actionVars, chain,
                   sideButAwait>>

\* install: await setCurrentDbVersion(db, version)
InstallSetBegin ==
    /\ pc = "install"
    /\ phase > Len(InstallPhases)
    /\ chain' = StartChain("set", latestVersion, "install")
    /\ pc' = "store"
    /\ examined' = NotExamined
    /\ UNCHANGED <<versionJson, dbVars, calls, upgradeVars, latestVersion, thrown,
                   result, installVars, historyVars, setInvocations, storeVars,
                   actionVars, inFlight,
                   sideButAwait>>

NextAwait ==
    \/ UpgradeBegin
    \/ StoreIssue
    \/ StoreSettle
    \/ AwaitDescriptor
    \/ ExamineAction
    \/ ActionIssue
    \/ ActionSettle
    \/ VersionDone
    \/ LoopExit
    \/ SaveBegin
    \/ Return
    \/ InstallStart
    \/ InstallIssue
    \/ InstallSettle
    \/ InstallNextPhase
    \/ InstallSetBegin
    \/ InstallReturn

SpecAwait == Init /\ [][NextAwait]_vars

(* ------------------ upgrade, every awaited step completing ------------- *)
\* every driver call and every file read that upgrade awaits completes, so
\* the step that waits for it is taken
NextTerminates ==
    \/ UpgradeStart
    \/ AwaitDescriptor
    \/ ExamineAction
    \/ ExecAction
    \/ VersionDone
    \/ LoopExit
    \/ SaveVersion
    \/ Return

SpecTerminates == Init /\ [][NextTerminates]_vars /\ WF_vars(NextTerminates)

(* ------------------------ upgrade, called again ------------------------ *)
\* the actions of the descriptors: without bounds, or for databases that
\* started below version 1
RetryActions == {[min_version |-> UNDEFINED, max_version |-> UNDEFINED],
                 [min_version |-> UNDEFINED, max_version |-> 1]}

\* the descriptors upgrade.<N>.json
RetryDescriptors == UNION {[1..n -> RetryActions] : n \in 0..MaxActions}

\* the number of actions in the descriptors of versions 1..n
RECURSIVE TotalActions(_, _)
TotalActions(files, n) ==
    IF n = 0 THEN 0 ELSE Len(files[n]) + TotalActions(files, n - 1)

\* the directories of descriptors: at most MaxActions actions altogether
RetryFiles ==
    {files \in [1..MaxVersion -> RetryDescriptors] :
        TotalActions(files, MaxVersion) <= MaxActions}

\* the descriptors are on disk and the first upgrade call is about to start
RetryBegin ==
    /\ pc = "idle"
    /\ retry.run = 0
    /\ \E files \in RetryFiles :
          retry' = [run |-> 1, files |-> files, before |-> <<>>, abortedIn |-> 0]
    /\ examined' = NotExamined
    /\ UNCHANGED <<pc, versionJson, dbVars, calls, upgradeVars, latestVersion, thrown,
                   result, installVars, historyVars, setInvocations, storeVars,
                   actionVars, sideButRetry>>

RetryUpgradeStart ==
    /\ retry.run \in {1, 2}
    /\ UpgradeStart

\* upgrade.<N>.json is read and parsed
RetryLoad ==
    /\ retry.run \in {1, 2}
    /\ LoadDescriptor
    /\ pc' = "actions"
    /\ upgradeSchemaLength' = Len(retry.files[TargetVersion(currentVersion)])

\* the next action of the descriptor and its min_version / max_version tests
RetryExamine ==
    /\ pc = "actions"
    /\ retry.run \in {1, 2}
    /\ actionIndex <= upgradeSchemaLength
    /\ LET action == retry.files[TargetVersion(currentVersion)][actionIndex] IN
       /\ examined' = [step |-> "bounds",
                       within |-> WithinExclusiveBounds(action, originalVersion),
                       softened |-> FALSE, answer |-> "none", second |-> "none"]
       /\ IF OutOfBounds(action, originalVersion)
          THEN /\ actionIndex' = actionIndex + 1
               /\ pc' = "actions"
          ELSE /\ pc' = "switch"
               /\ UNCHANGED actionIndex
    /\ UNCHANGED <<versionJson, dbVars, calls, originalVersion, currentVersion,
                   saveVersion, latestVersion, upgradeSchemaLength, thrown,
                   result, installVars, historyVars, setInvocations, storeVars,
                   actionVars, sideVars>>

\* the action names a known table and column: its driver call is issued
RetryExec ==
    /\ ExecAction
    /\ calls' # calls

\* the first call has aborted in a version; upgrade is called again on the
\* same descriptors and the same database
RunAgain ==
    /\ pc = "done"
    /\ retry.run = 1
    /\ loopError # NoError
    /\ retry' = [retry EXCEPT !.run = 2, !.before = calls,
                              !.abortedIn = loopError.version]
    /\ pc' = "idle"
    /\ calls' = <<>>
    /\ originalVersion' = UNDEFINED
    /\ currentVersion' = UNDEFINED
    /\ saveVersion' = UNDEFINED
    /\ latestVersion' = UNDEFINED
    /\ upgradeSchemaLength' = 0
    /\ actionIndex' = 0
    /\ thrown' = NoError
    /\ result' = Pending
    /\ firstFailure' = NoError
    /\ loopError' = NoError
    /\ suppressedIn' = {}
    /\ notFound' = {}
    /\ readErrors' = {}
    /\ storeFailed' = FALSE
    /\ setInvocations' = <<>>
    /\ examined' = NotExamined
    /\ UNCHANGED <<versionJson, dbVars, installVars, storeVars, actionVars,
                   sideButRetry>>

NextRetry ==
    \/ RetryBegin
    \/ RetryUpgradeStart
    \/ RetryLoad
    \/ RetryExamine
    \/ RetryExec
    \/ VersionDone
    \/ LoopExit
    \/ SaveVersion
    \/ Return
    \/ RunAgain

SpecRetry == Init /\ [][NextRetry]_vars

(* ------------------ getCurrentDbVersion, called twice ------------------ *)
\* the table is created if it is not there yet, without an error
CreateFails_ifNotExists(exists) == FALSE

\* db.schema.createTable('schema_globals', ...) on a database that has the
\* table already
CreateFails(exists) == exists

\* getCurrentDbVersion is called: ensureSchemaGlobalsExist issues hasTable
CallerStart(c) ==
    /\ callers[c].pc = "idle"
    /\ callers' = [callers EXCEPT ![c].pc = "hasTable"]
    /\ UNCHANGED tableExists

\* hasTable is answered; if the table is missing createTable is issued,
\* otherwise the select
HasTableSettles(c) ==
    /\ callers[c].pc = "hasTable"
    /\ callers' = [callers EXCEPT
                     ![c].pc = IF tableExists THEN "select" ELSE "createTable",
                     ![c].sawMissing = ~tableExists]
    /\ UNCHANGED tableExists

\* createTable is executed by the database; on failure the error is
\* rethrown by ensureSchemaGlobalsExist and by getCurrentDbVersion
CreateTableSettles(c) ==
    /\ callers[c].pc = "createTable"
    /\ IF CreateFails(tableExists)
       THEN /\ callers' = [callers EXCEPT ![c].pc = "rejected",
                                          ![c].error = Err("ER_TABLE_EXISTS_ERROR", 0, 0)]
            /\ UNCHANGED tableExists
       ELSE /\ callers' = [callers EXCEPT ![c].pc = "select"]
            /\ tableExists' = TRUE

\* the select of the version row is answered
SelectSettles(c) ==
    /\ callers[c].pc = "select"
    /\ callers' = [callers EXCEPT ![c].pc = "resolved",
                                  ![c].version = StoredVersion(rows)]
    /\ UNCHANGED tableExists

NextRace ==
    /\ pc = "idle"
    /\ \E c \in Callers :
          \/ CallerStart(c)
          \/ HasTableSettles(c)
          \/ CreateTableSettles(c)
          \/ SelectSettles(c)
    /\ examined' = NotExamined
    /\ UNCHANGED <<pc, versionJson, rows, calls, upgradeVars, latestVersion, thrown,
                   result, installVars, historyVars, setInvocations, storeVars,
                   actionVars, sideButCallers>>

SpecRace == Init /\ [][NextRace]_vars

(* ----------------------------- createColumn ---------------------------- *)
\* A type string is the sequence of its parts: 'unsigned :mediumint' is
\* <<"unsigned ", ":", "mediumint">>. type.startsWith('unsigned ') and
\* type[0] === ':' look at the first part, substr(9) and substr(1) drop it.
TypeNames == {"text", "string", "varchar", "char", "float", "double", "decimal",
              "timestamp", "timestamptz", "enu", "enum", "json", "jsonb",
              "integer", "uuid", "geometry"}

TypePrefixes == {<<>>, <<"unsigned ">>, <<":">>, <<"unsigned ", ":">>, <<":", "unsigned ">>}

TypeStrings == {prefix \o <<name>> : prefix \in TypePrefixes, name \in TypeNames}

\* the keys a column description may hold besides name and type
TypeAttributes == {"length", "text_type", "precision", "scale", "enum_values"}
DefaultKeys == {"raw_default", "default"}
FlagKeys == {"unique", "primary_key", "unsigned", "nullable", "collate"}

\* the column descriptions: has are the keys present, falsy those of them
\* whose value is false, 0 or ''
ColumnData ==
    {[type |-> type, has |-> attributes \cup defaults \cup flags,
      falsy |-> falsy \cup (flags \cap {"nullable"})] :
        type \in TypeStrings,
        attributes \in {{}, TypeAttributes},
        defaults \in SUBSET DefaultKeys,
        falsy \in SUBSET DefaultKeys,
        flags \in {{}, FlagKeys, FlagKeys \ {"nullable"}}}

\* a call on the table or column builder: the method, the keys of the
\* column description whose values are its arguments after the name, the
\* native type handed to specificType, a literal argument
BuilderCall(method, args, native, flag) ==
    [method |-> method, args |-> args, native |-> native, flag |-> flag]

Modifier(method) == BuilderCall(<<method>>, <<>>, <<>>, "none")

\* columnData[key] !== undefined
IsDefined(data, key) == key \in data.has

\* if (columnData[key])
IsTruthy(data, key) == key \in data.has /\ key \notin data.falsy

\* the prefix is left in the type
StripUnsigned_keeps(type) == type

\* const unsigned = type.startsWith('unsigned '); if (unsigned) type = type.substr(9)
StripUnsigned(type) ==
    IF type # <<>> /\ Head(type) = "unsigned " THEN Tail(type) ELSE type

StartsUnsigned(type) == type # <<>> /\ Head(type) = "unsigned "

\* the if / else if chain on the type
TypeCall(type) ==
    IF type # <<>> /\ Head(type) = ":"
    THEN BuilderCall(<<"specificType">>, <<>>, Tail(type), "none")
    ELSE IF type = <<"text">>
    THEN BuilderCall(<<"text">>, <<"text_type">>, <<>>, "none")
    ELSE IF type \in {<<"string">>, <<"varchar">>, <<"char">>}
    THEN BuilderCall(type, <<"length">>, <<>>, "none")
    ELSE IF type \in {<<"float">>, <<"double">>, <<"decimal">>}
    THEN BuilderCall(type, <<"precision", "scale">>, <<>>, "none")
    ELSE IF type \in {<<"timestamp">>, <<"timestamptz">>}
    THEN BuilderCall(<<"timestamp">>, <<>>, <<>>,
                     IF type # <<"timestamptz">> THEN "true" ELSE "false")
    ELSE IF type \in {<<"enu">>, <<"enum">>}
    THEN BuilderCall(<<"enu">>, <<"enum_values">>, <<>>, "none")
    ELSE IF type \in {<<"json">>, <<"jsonb">>}
    THEN BuilderCall(<<"json">>, <<>>, <<>>,
                     IF type = <<"jsonb">> THEN "true" ELSE "false")
    ELSE BuilderCall(type, <<>>, <<>>, "none")

\* the plain default is looked at first
DefaultCalls_plainFirst(data) ==
    IF IsDefined(data, "default")
    THEN <<BuilderCall(<<"defaultTo">>, <<"default">>, <<>>, "none")>>
    ELSE IF IsDefined(data, "raw_default")
    THEN <<BuilderCall(<<"defaultTo">>, <<"raw_default">>, <<>>, "raw")>>
    ELSE <<>>

\* column.defaultTo(db.raw(columnData['raw_default'])) or
\* column.defaultTo(columnData['default'])
DefaultCalls(data) ==
    IF IsDefined(data, "raw_default")
    THEN <<BuilderCall(<<"defaultTo">>, <<"raw_default">>, <<>>, "raw")>>
    ELSE IF IsDefined(data, "default")
    THEN <<BuilderCall(<<"defaultTo">>, <<"default">>, <<>>, "none")>>
    ELSE <<>>

\* createColumn for a description with a name and a type: the calls on the
\* builders, in order
CreateColumn(data) ==
    <<TypeCall(StripUnsigned(data.type))>>
    \o (IF StartsUnsigned(data.type) THEN <<Modifier("unsigned")>> ELSE <<>>)
    \o DefaultCalls(data)
    \o (IF IsTruthy(data, "unique") THEN <<Modifier("unique")>> ELSE <<>>)
    \o (IF IsTruthy(data, "primary_key") THEN <<Modifier("primary")>> ELSE <<>>)
    \o (IF IsTruthy(data, "unsigned") THEN <<Modifier("unsigned")>> ELSE <<>>)
    \o (IF IsDefined(data, "nullable") /\ ~IsTruthy(data, "nullable")
        THEN <<Modifier("notNullable")>> ELSE <<>>)
    \o (IF IsDefined(data, "collate")
        THEN <<BuilderCall(<<"collate">>, <<"collate">>, <<>>, "none")>> ELSE <<>>)

\* createColumn(db, table, columnData)
CreateColumnCall ==
    /\ pc = "idle"
    /\ builtColumn = NoColumn
    /\ \E data \in ColumnData :
          builtColumn' = [data |-> data, built |-> CreateColumn(data)]
    /\ examined' = NotExamined
    /\ UNCHANGED <<pc, versionJson, dbVars, calls, upgradeVars, latestVersion, thrown,
                   result, installVars, historyVars, setInvocations, storeVars,
                   actionVars, sideButColumn>>

NextColumn == CreateColumnCall

SpecColumn == Init /\ [][NextColumn]_vars

(* ----------------------- the two forms of schema.json ------------------ *)
\* a key of a JSON object: a table name, or one of the names the code looks up
Key(name, n) == [name |-> name, n |-> n]

\* Object.keys of a mapping of n tables
TableKeys(n) == [i \in 1..n |-> Key("table", i)]

\* what schema.json can hold under its `schema` key: nothing, the description
\* of a table (its columns an array), a mapping of tables, or a mapping of
\* tables one of which is named columns
SchemaEntries ==
    {[kind |-> "absent", columns |-> "none", keys |-> <<>>],
     [kind |-> "object", columns |-> "array", keys |-> <<Key("columns", 0)>>]}
    \cup {[kind |-> "object", columns |-> "none", keys |-> TableKeys(n)] : n \in 0..MaxTables}
    \cup {[kind |-> "object", columns |-> "other",
           keys |-> TableKeys(n) \o <<Key("columns", 0)>>] : n \in 0..MaxTables}

\* schema.json: its other top-level tables, its `schema` entry, and the
\* length of its `raw` list (UNDEFINED without that key)
SchemaDocuments ==
    [tables : 0..MaxTables, schema : SchemaEntries, raw : {UNDEFINED} \cup 0..MaxRaw]

\* Object.keys(schema)
TopKeys(doc) ==
    TableKeys(doc.tables)
    \o (IF doc.schema.kind # "absent" THEN <<Key("schema", 0)>> ELSE <<>>)
    \o (IF doc.raw # UNDEFINED THEN <<Key("raw", 0)>> ELSE <<>>)

\* schema['schema'] is truthy whatever its columns
IsWrapped_anySchemaKey(doc) == doc.schema.kind = "object"

\* schema['schema'] && !Array.isArray(schema['schema']['columns'])
IsWrapped(doc) ==
    doc.schema.kind = "object" /\ doc.schema.columns # "array"

\* Object.keys(dbTables) of install, Object.keys(schema) of upgrade
SchemaTables(doc) == IF IsWrapped(doc) THEN doc.schema.keys ELSE TopKeys(doc)

\* dbRawQueries of install: schema['raw'] || [] of the wrapped form, [] otherwise
SchemaRawQueries(doc) ==
    IF IsWrapped(doc) /\ doc.raw # UNDEFINED THEN doc.raw ELSE 0

\* install and upgrade read schema.json; upgrade takes no raw query from it
ReadSchemaJson ==
    /\ pc = "idle"
    /\ document = NoDocument
    /\ \E doc \in SchemaDocuments, op \in {"install", "upgrade"} :
          document' = [op |-> op, doc |-> doc, tables |-> SchemaTables(doc),
                       raw |-> IF op = "install" THEN SchemaRawQueries(doc) ELSE 0]
    /\ examined' = NotExamined
    /\ UNCHANGED <<pc, versionJson, dbVars, calls, upgradeVars, latestVersion, thrown,
                   result, installVars, historyVars, setInvocations, storeVars,
                   actionVars, sideButDocument>>

NextDocument == ReadSchemaJson

SpecDocument == Init /\ [][NextDocument]_vars

(* ------------------- the MySQL backup: tables and views ---------------- *)
\* the names a table or a view of the database can have
ObjectNames == 1..MaxObjects

\* INFORMATION_SCHEMA.TABLES: TABLE_TYPE of every name of the database
Databases == [ObjectNames -> {"none", "BASE TABLE", "VIEW"}]

\* the names of db[from..] whose TABLE_TYPE is tableType, as the query lists them
RECURSIVE NamesOfType(_, _, _)
NamesOfType(db, tableType, from) ==
    IF from > MaxObjects THEN <<>>
    ELSE (IF db[from] = tableType THEN <<from>> ELSE <<>>)
         \o NamesOfType(db, tableType, from + 1)

\* getObjectList(knex, objectType) for the two types held by INFORMATION_SCHEMA.TABLES
GetObjectList(db, objectType) ==
    CASE objectType = "Table" -> NamesOfType(db, "BASE TABLE", 1)
      [] objectType = "View" -> NamesOfType(db, "VIEW", 1)
      [] OTHER -> <<>>

\* isView(knex, tableName): information_schema.VIEWS has a row of that name
IsView(db, tableName) == db[tableName] = "VIEW"

\* a statement written to the output stream
Statement(verb, objectType, name, ifNotExists) ==
    [verb |-> verb, type |-> objectType, name |-> name, ifNotExists |-> ifNotExists]

\* getObjectCreate(knex, objectType, objectName, ifNotExists)
GetObjectCreate(objectType, objectName, ifNotExists) ==
    Statement("CREATE", objectType, objectName, ifNotExists)

\* what one object adds to the stream: the DROP if options.dropTable, then the CREATE
ObjectStructure(objectType, name, dropTable) ==
    (IF dropTable THEN <<Statement("DROP", objectType, name, TRUE)>> ELSE <<>>)
    \o <<GetObjectCreate(objectType, name, ~dropTable)>>

\* PromiseHelper.serial over the tables from the i-th: a name that isView
\* reports is pushed to views, any other has its structure written
RECURSIVE SerialTables(_, _, _, _, _)
SerialTables(db, tables, i, dropTable, acc) ==
    IF i > Len(tables) THEN acc
    ELSE SerialTables(db, tables, i + 1, dropTable,
            IF IsView(db, tables[i])
            THEN [acc EXCEPT !.views = Append(@, tables[i])]
            ELSE [acc EXCEPT !.written = @ \o ObjectStructure("Table", tables[i], dropTable)])

\* PromiseHelper.serial over the views from the i-th
RECURSIVE SerialViews(_, _, _, _)
SerialViews(views, i, dropTable, written) ==
    IF i > Len(views) THEN written
    ELSE SerialViews(views, i + 1, dropTable,
                     written \o ObjectStructure("View", views[i], dropTable))

\* exportTableStructure(knex, outputStream, options): what the stream holds
\* when the promise resolves
ExportTableStructure(db, dropTable) ==
    LET tables == GetObjectList(db, "Table")
        afterTables == SerialTables(db, tables, 1, dropTable,
                                    [views |-> <<>>, written |-> <<>>])
    IN  SerialViews(afterTables.views, 1, dropTable, afterTables.written)

\* exportTableStructure is called on a database, with or without options.dropTable
ExportTableStructureCall ==
    /\ pc = "idle"
    /\ backup = NoBackup
    /\ \E db \in Databases, dropTable \in BOOLEAN :
          backup' = [done |-> TRUE, db |-> db, dropTable |-> dropTable,
                     written |-> ExportTableStructure(db, dropTable)]
    /\ examined' = NotExamined
    /\ UNCHANGED <<pc, versionJson, dbVars, calls, upgradeVars, latestVersion, thrown,
                   result, installVars, historyVars, setInvocations, storeVars,
                   actionVars, sideButBackup>>

NextBackup == ExportTableStructureCall

SpecBackup == Init /\ [][NextBackup]_vars

(* ------------------ setCurrentDbVersion, called twice ------------------ *)
\* getCurrentDbVersion inside setCurrentDbVersion is answered: the insert
\* is issued if currentDbVersion == null, the update otherwise
SetSelectSettles(c) ==
    /\ callers[c].pc = "select"
    /\ callers' = [callers EXCEPT
                     ![c].pc = IF InsertsRow(StoredVersion(rows)) THEN "insert" ELSE "update",
                     ![c].readAbsent = (StoredVersion(rows) = NULL)]
    /\ UNCHANGED <<tableExists, rows>>

\* the insert or the update is executed by the database
WriteSettles(c) ==
    /\ callers[c].pc \in {"insert", "update"}
    /\ \E version \in 0..MaxVersion :
          LET cs == <<Call(callers[c].pc, 0, version)>> IN
          /\ rows' = RowsAfterSet(rows, version, cs, 0)
          /\ callers' = [callers EXCEPT
                           ![c].pc = IF Succeeds(cs, 0, rows) THEN "resolved" ELSE "rejected",
                           ![c].error = IF Succeeds(cs, 0, rows) THEN NoError
                                        ELSE Err("ER_DUP_ENTRY", 0, 0),
                           ![c].version = version]
    /\ UNCHANGED tableExists

NextSetRace ==
    /\ pc = "idle"
    /\ \E c \in Callers :
          \/ CallerStart(c) /\ UNCHANGED rows
          \/ HasTableSettles(c) /\ UNCHANGED rows
          \/ CreateTableSettles(c) /\ UNCHANGED rows
          \/ SetSelectSettles(c)
          \/ WriteSettles(c)
    /\ examined' = NotExamined
    /\ UNCHANGED <<pc, versionJson, calls, upgradeVars, latestVersion, thrown,
                   result, installVars, historyVars, setInvocations, storeVars,
                   actionVars, sideButCallers>>

SpecSetRace == Init /\ [][NextSetRace]_vars

(* ------------------------- completion callbacks ------------------------ *)
\* the public operations that take a callback
PublicOperations ==
    {"setTablePrefix", "isUpgradeNeeded", "isInstallNeeded", "install", "upgrade",
     "getCurrentDbVersion", "setCurrentDbVersion", "getLatestDbVersion",
     "createTable", "createTableIndexes", "createIndex", "createTableForeignKeys",
     "createForeign", "ensureSchemaGlobalsExist"}

\* the operations that hand a result to the callback on success
ReturnsValue ==
    {"setTablePrefix", "isUpgradeNeeded", "isInstallNeeded", "install", "upgrade",
     "getCurrentDbVersion", "setCurrentDbVersion", "getLatestDbVersion",
     "ensureSchemaGlobalsExist"}

\* how the body of an operation ends
Bodies(op) == IF op = "setTablePrefix" THEN {"ok"} ELSE {"ok", "error"}

\* callback(error, value): is the first argument an error, is there a second
Invocation(error, value) == [kind |-> "callback", error |-> error, value |-> value]

\* () => callback(err) where no err is in scope
Unbound == [kind |-> "unbound", error |-> FALSE, value |-> FALSE]

\* What an operation called with a callback schedules when its body has
\* ended: setImmediate(() => callback(...)), or the handlers createForeign
\* chains to its promise.
Scheduled(op, body) ==
    CASE op = "createForeign" ->
           IF body = "ok" THEN <<Invocation(FALSE, FALSE)>>
           ELSE <<Invocation(TRUE, FALSE), Invocation(FALSE, FALSE)>>
      [] op = "createTable" ->
           IF body = "ok" THEN <<Unbound>> ELSE <<Invocation(TRUE, FALSE)>>
      [] op = "upgrade" ->
           IF body = "ok" THEN <<Invocation(FALSE, TRUE)>> ELSE <<Invocation(TRUE, TRUE)>>
      [] OTHER ->
           IF body = "ok" THEN <<Invocation(FALSE, op \in ReturnsValue)>>
           ELSE <<Invocation(TRUE, FALSE)>>

\* a public operation is called with a callback and its body ends
CallWithCallback ==
    /\ pc = "idle"
    /\ \E op \in PublicOperations :
       \E body \in Bodies(op) :
          adapter' = [op |-> op, body |-> body, queue |-> Scheduled(op, body),
                      invoked |-> <<>>, uncaught |-> FALSE]
    /\ pc' = "immediates"
    /\ examined' = NotExamined
    /\ UNCHANGED <<versionJson, dbVars, calls, upgradeVars, latestVersion, thrown,
                   result, installVars, historyVars, setInvocations, storeVars,
                   actionVars, sideButAdapter>>

\* the event loop runs what was scheduled: the callback is invoked, or the
\* function throws a ReferenceError before it reaches the callback
RunScheduled ==
    /\ pc = "immediates"
    /\ adapter.queue # <<>>
    /\ adapter' = [adapter EXCEPT
                     !.queue = Tail(@),
                     !.invoked = IF Head(adapter.queue).kind = "callback"
                                 THEN Append(@, Head(adapter.queue)) ELSE @,
                     !.uncaught = @ \/ Head(adapter.queue).kind = "unbound"]
    /\ examined' = NotExamined
    /\ UNCHANGED <<pc, versionJson, dbVars, calls, upgradeVars, latestVersion, thrown,
                   result, installVars, historyVars, setInvocations, storeVars,
                   actionVars, sideButAdapter>>

NextCallback ==
    \/ CallWithCallback
    \/ RunScheduled

SpecCallback == Init /\ [][NextCallback]_vars

(* ======================================================================= *)
(* Properties of install                                                   *)
(* ======================================================================= *)
\* <<op, index>> of every driver call issued so far
Issued == [i \in 1..Len(calls) |-> <<calls[i].op, calls[i].a>>]

TableCalls(op, n) == [i \in 1..n |-> <<op, i>>]

RECURSIVE RawCalls(_, _)
RawCalls(raw, i) ==
    IF i > Len(raw) THEN <<>>
    ELSE (IF raw[i] \in {"string", "lines"} THEN <<(<<"raw", i>>)>> ELSE <<>>)
         \o RawCalls(raw, i + 1)

\* the schema calls a complete install issues, in the order of the claim
ExpectedInstallCalls ==
    TableCalls("createTable", dbTables)
    \o RawCalls(dbRawQueries, 1)
    \o TableCalls("createTableIndexes", dbTables)
    \o TableCalls("createTableForeignKeys", dbTables)

PhaseRank(op) ==
    CASE op = "createTable" -> 1
      [] op = "raw" -> 2
      [] op = "createTableIndexes" -> 3
      [] op = "createTableForeignKeys" -> 4
      [] OTHER -> 5

\* C3: a successful install of N tables has issued N create-table calls,
\* then the raw queries in declared order, then N index calls, then N
\* foreign-key calls, and only then the calls that write the version; at no
\* moment, of a failing install either, has a call of a later phase been
\* issued before a call of an earlier phase.
C3_InstallOrder ==
    /\ \A i, j \in 1..Len(calls) :
            i < j => PhaseRank(calls[i].op) <= PhaseRank(calls[j].op)
    /\ (pc = "done" /\ result.state = "resolved")
       => /\ Len(calls) > Len(ExpectedInstallCalls)
          /\ SubSeq(Issued, 1, Len(ExpectedInstallCalls)) = ExpectedInstallCalls
          /\ \A i \in Len(ExpectedInstallCalls) + 1 .. Len(calls) :
                PhaseRank(calls[i].op) = 5
          /\ calls[Len(calls)].op \in {"insert", "update"}
          /\ calls[Len(calls)].b = versionJson
          /\ StoredVersion(rows) = versionJson

C3_Witness ==
    /\ pc = "done"
    /\ result.state = "resolved"
    /\ dbTables = 2
    /\ dbRawQueries = <<"string", "lines">>
    /\ Len(calls) >= 11

(* ======================================================================= *)
(* Properties of upgrade                                                   *)
(* ======================================================================= *)
IsNumber(v) == v # NULL /\ v # UNDEFINED

ActionCalls == SelectSeq(calls, LAMBDA c : c.op = "action")

\* the action calls were issued in ascending version order and in declared
\* order within a version
Ascending(cs) ==
    \A i, j \in 1..Len(cs) :
        i < j => \/ cs[i].a < cs[j].a
                 \/ cs[i].a = cs[j].a /\ cs[i].b < cs[j].b

\* C1: an upgrade that started from a persisted version o < L and reports
\* the first unsuppressed action failure, which happened in the descriptor of
\* version N, leaves N-1 persisted.
C1_FailureLeavesLastCompletedVersion ==
    (/\ pc = "done"
     /\ IsNumber(originalVersion)
     /\ JsLess(originalVersion, latestVersion)
     /\ firstFailure # NoError
     /\ result.state = "rejected"
     /\ result.error = firstFailure)
    => StoredVersion(rows) = firstFailure.version - 1

C1_Witness ==
    /\ pc = "done"
    /\ originalVersion = 0
    /\ firstFailure # NoError
    /\ firstFailure.version = 2
    /\ result.error = firstFailure
    /\ StoredVersion(rows) = 1

\* C2: with no version row, upgrade fails with 'empty-database', executes no
\* upgrade action and leaves the version row absent.
C2_EmptyDatabaseRefused ==
    (pc = "done" /\ originalVersion = NULL)
    => /\ result.state = "rejected"
       /\ result.error.kind = "empty-database"
       /\ ActionCalls = <<>>
       /\ VersionRows(rows) = {}

\* C4: when no action fails unsuppressed (and every descriptor can be read
\* and the bookkeeping calls succeed), an upgrade from o < L resolves, has
\* issued its actions in ascending version and declared order, and has stored
\* L by an update of the version row as its last call.
C4_SuccessfulUpgradeReachesLatest ==
    (/\ pc = "done"
     /\ IsNumber(originalVersion)
     /\ JsLess(originalVersion, latestVersion)
     /\ firstFailure = NoError
     /\ readErrors = {}
     /\ ~storeFailed)
    => /\ result.state = "resolved"
       /\ StoredVersion(rows) = latestVersion
       /\ calls[Len(calls)] = Call("update", 0, latestVersion)
       /\ Ascending(ActionCalls)
       /\ \A i \in 1..Len(ActionCalls) :
            /\ originalVersion < ActionCalls[i].a
            /\ ActionCalls[i].a <= latestVersion

C4_Witness ==
    /\ pc = "done"
    /\ originalVersion = 0
    /\ latestVersion = 2
    /\ result.state = "resolved"
    /\ Len(ActionCalls) = 3
    /\ StoredVersion(rows) = 2

\* C5 as stated: every upgrade run that read a persisted version calls the
\* Version Store's write exactly once.
C5_WritesExactlyOnce ==
    (pc = "done" /\ IsNumber(originalVersion)) => Len(setInvocations) = 1

\* C5 as amended: the write is never issued before the version loop has
\* ended, and once it has ended the write has been issued exactly once, with
\* the version reached, if that version differs from the version read at the
\* start, and not at all if it is the same.
C5_WritesOnceIffVersionChanged ==
    /\ pc \in {"idle", "loop", "actions", "switch", "finally"} => setInvocations = <<>>
    /\ (pc \in {"return", "done"} /\ IsNumber(originalVersion))
       => LET reached == IF loopError = NoError THEN latestVersion ELSE currentVersion
          IN setInvocations = IF reached # originalVersion THEN <<reached>> ELSE <<>>

C5_Witness ==
    /\ pc = "done"
    /\ originalVersion = 0
    /\ loopError # NoError
    /\ setInvocations = <<1>>

\* C6: when the version loop aborts with an error e, the caller receives e,
\* and receives it after the write of the version reached.
C6_LoopErrorReachesCaller ==
    (pc = "done" /\ loopError # NoError)
    => /\ result.state = "rejected"
       /\ result.error = loopError
       /\ (currentVersion # originalVersion => setInvocations = <<currentVersion>>)

\* C7: a descriptor that does not exist issues no driver call for its
\* version K, moves the current version from K-1 to K and lets the loop go
\* on; alone it never fails the upgrade, and the persisted version ends at
\* K or later.
C7_MissingDescriptorIsSkipped ==
    /\ [](\A K \in notFound : \A i \in 1..Len(calls) :
            ~(calls[i].op = "action" /\ calls[i].a = K))
    /\ []((pc = "done" /\ ~storeFailed)
            => \A K \in notFound : JsLessEq(K, StoredVersion(rows)))
    /\ []((pc = "done" /\ ~storeFailed /\ firstFailure = NoError /\ readErrors = {})
            => result.state = "resolved")
    /\ [][notFound' # notFound
            => \E K \in notFound' \ notFound :
                /\ ToNumber(currentVersion) = K - 1
                /\ currentVersion' = K
                /\ pc' = "loop"
                /\ thrown' = NoError]_vars

C7_Witness ==
    /\ pc = "done"
    /\ notFound = {1}
    /\ result.state = "resolved"
    /\ Len(ActionCalls) > 0
    /\ ActionCalls[1].a = 2
    /\ StoredVersion(rows) = 2

\* C8: a descriptor of version K that is not valid JSON aborts the loop with
\* the parse error: no action of version K or later is executed, the current
\* version stays K-1, and when upgrade returns that error the persisted
\* version is K-1.
C8_InvalidJsonAborts ==
    \A e \in readErrors :
        e.kind = "SyntaxError"
        => /\ loopError = e
           /\ ToNumber(currentVersion) = e.version - 1
           /\ \A i \in 1..Len(calls) :
                ~(calls[i].op = "action" /\ calls[i].a >= e.version)
           /\ (pc = "done" /\ result.error = e)
                => StoredVersion(rows) = e.version - 1

\* C9: a failed action with ignore_errors leaves no error behind and the
\* for loop moves on to the next action of the same descriptor; a version
\* whose only failures were such actions is completed.
C9_IgnoredErrorIsSwallowed ==
    /\ [][examined'.softened
          => /\ TargetVersion(currentVersion) \in suppressedIn'
             /\ thrown' = NoError
             /\ pc' = "actions"
             /\ currentVersion' = currentVersion
             /\ actionIndex' = actionIndex + 1]_vars
    /\ [](pc = "done"
            => \A v \in suppressedIn :
                (firstFailure = NoError \/ firstFailure.version # v)
                => JsLessEq(v, currentVersion))

C9_Witness ==
    /\ pc = "done"
    /\ result.state = "resolved"
    /\ suppressedIn = {1}
    /\ ActionCalls = <<Call("action", 1, 1), Call("action", 1, 2)>>
    /\ StoredVersion(rows) = 1

\* C10: once an action without ignore_errors has failed, no further action
\* call is issued: the failed call stays the last one.
C10_NoActionAfterFailure ==
    /\ [][firstFailure # NoError => ActionCalls' = ActionCalls]_vars
    /\ [](firstFailure.kind = "driver"
            => ActionCalls[Len(ActionCalls)] =
                 Call("action", firstFailure.version, firstFailure.index))

C10_Witness ==
    /\ pc = "done"
    /\ firstFailure = Err("driver", 1, 1)
    /\ upgradeSchemaLength = 2
    /\ latestVersion = 2
    /\ Len(ActionCalls) = 1

\* C11: an action is executed if and only if m < o and o < M for the bounds
\* m, M it carries, o being the version row read at the start of the upgrade; an
\* action that is not executed issues no driver call, raises no error and
\* the for loop goes on with the next action.
C11_ExecutedIffWithinExclusiveBounds ==
    [][(examined'.step = "bounds" /\ IsNumber(originalVersion))
        => /\ pc' = "switch" <=> examined'.within
           /\ pc' # "switch" => /\ pc' = "actions"
                                /\ actionIndex' = actionIndex + 1
                                /\ calls' = calls
                                /\ thrown' = thrown
                                /\ firstFailure' = firstFailure
                                /\ suppressedIn' = suppressedIn]_vars

(* ======================================================================= *)
(* Properties of the version store                                         *)
(* ======================================================================= *)
\* the step is the return of the version store operation op
Returns(op) == opCount' = opCount + 1 /\ lastOp'.op = op

\* the calls the step has issued
NewCalls == SubSeq(calls', Len(calls) + 1, Len(calls'))

\* C12: isInstallNeeded returns true if and only if schema_globals holds no
\* version row, creating schema_globals first when it does not exist; it
\* never writes a version row, and it fails only if a driver call fails.
C12_InstallNeededIffNoVersionRow ==
    [][Returns("isInstallNeeded")
        => /\ rows' = rows
           /\ lastOp'.ok <=> lastOp'.failed = 0
           /\ lastOp'.ok
              => /\ lastOp'.value <=> VersionRows(rows) = {}
                 /\ tableExists'
                 /\ NewCalls = IF tableExists
                               THEN <<Call("hasTable", 0, 0), Call("select", 0, 0)>>
                               ELSE <<Call("hasTable", 0, 0), Call("createGlobals", 0, 0),
                                      Call("select", 0, 0)>>]_vars

C12_Witness ==
    /\ lastOp.op = "isInstallNeeded"
    /\ lastOp.ok
    /\ ~lastOp.value
    /\ StoredVersion(rows) = 0

C14_SetThenGetAndSetAgain ==
    /\ [][Returns("setCurrentDbVersion")
            => /\ lastOp'.ok <=> lastOp'.failed = 0
               /\ lastOp'.ok
                  => /\ StoredVersion(rows') = lastOp'.arg
                     /\ NewCalls[Len(NewCalls)] =
                          Call(IF VersionRows(rows) = {} THEN "insert" ELSE "update",
                               0, lastOp'.arg)]_vars
    /\ [][(lastOp.op = "setCurrentDbVersion" /\ lastOp.ok
            /\ Returns("getCurrentDbVersion") /\ lastOp'.ok)
            => lastOp'.value = lastOp.arg]_vars
    /\ [][(lastOp.op = "setCurrentDbVersion" /\ lastOp.ok
            /\ Returns("setCurrentDbVersion") /\ lastOp'.arg = lastOp.arg)
            => /\ lastOp'.failed = 0 => lastOp'.ok
               /\ StoredVersion(rows') = lastOp.arg
               /\ \A i \in 1..Len(NewCalls) : NewCalls[i].op # "insert"
               /\ lastOp'.ok => NewCalls[Len(NewCalls)].op = "update"]_vars

C14_Witness ==
    /\ lastOp.op = "setCurrentDbVersion"
    /\ lastOp.ok
    /\ setInvocations = <<0, 0>>
    /\ Len(calls) = 7
    /\ calls[2] = Call("createGlobals", 0, 0)
    /\ calls[4] = Call("insert", 0, 0)
    /\ calls[7] = Call("update", 0, 0)
    /\ StoredVersion(rows) = 0

(* ======================================================================= *)
(* Properties of the switch                                                *)
(* ======================================================================= *)
\* the switch has dealt with the action dispatched
Dispatched == pc # "switch"

\* the action calls in the log of the upgrade
NoActionCall == \A i \in 1..Len(calls) : calls[i].op # "action"

\* C15: an addColumn or alterColumn action on a declared table with the
\* columns [c1..cn] that targets ci issues a call on the prefixed table for
\* column ci that carries 'after c(i-1)' when i > 1 and 'first' when i = 1;
\* the call of alterColumn is the same call, altering the column.
C15_ColumnPosition ==
    (/\ Dispatched
     /\ dispatched.action \in {"addColumn", "alterColumn"}
     /\ dispatched.table \in DOMAIN schema)
    => LET columns == schema[dispatched.table] IN
       \A i \in 1..Len(columns) :
          (/\ columns[i] = dispatched.column
           /\ \A j \in 1..(i - 1) : columns[j] # dispatched.column)
          => /\ issued # <<>>
             /\ issued[1] =
                  [op |-> "table",
                   change |-> dispatched.action,
                   table |-> tablePrefix \o dispatched.table,
                   column |-> columns[i],
                   alter |-> dispatched.action = "alterColumn",
                   position |-> IF i > 1
                                THEN [where |-> "after", column |-> columns[i - 1]]
                                ELSE [where |-> "first", column |-> ""],
                   references |-> <<>>]

C15_Witness ==
    /\ Dispatched
    /\ dispatched.action = "alterColumn"
    /\ dispatched.table = <<"t">>
    /\ dispatched.column = "c2"
    /\ schema[<<"t">>] = <<"c1", "c2">>
    /\ Len(issued) = 1
    /\ issued[1].alter
    /\ issued[1].position = [where |-> "after", column |-> "c1"]

\* what C19 says the switch finds wrong with the action
ClaimedFault(act, sch) ==
    IF /\ act.action \in {"createTable", "createTableIndexes", "createTableForeignKeys",
                          "addColumn", "alterColumn"}
       /\ act.table \notin DOMAIN sch
    THEN "unknown-table"
    ELSE IF /\ act.action \in {"addColumn", "alterColumn"}
            /\ \A i \in 1..Len(sch[act.table]) : sch[act.table][i] # act.column
    THEN "unknown-column"
    ELSE IF act.action \notin Kinds THEN "unknown-action"
    ELSE "none"

\* C19: an action that names a table schema.json does not declare
\* (createTable, createTableIndexes, createTableForeignKeys, addColumn,
\* alterColumn) fails with 'unknown-table', one that names a column the
\* table does not declare (addColumn, alterColumn) with 'unknown-column', one
\* of an unrecognised kind with 'unknown-action'; no driver call is issued
\* for it; with ignore_errors the error is dropped and the loop goes on,
\* without it the upgrade is aborted with that error.
C19_UnknownNamesFail ==
    (Dispatched /\ ClaimedFault(dispatched, schema) # "none")
    => LET e == Err(ClaimedFault(dispatched, schema), 1, 1) IN
       /\ issued = <<>>
       /\ NoActionCall
       /\ IF dispatched.ignore_errors
          THEN /\ loopError = NoError
               /\ firstFailure = NoError
               /\ suppressedIn = {1}
               /\ pc \in {"actions", "loop", "finally"} => thrown = NoError
               /\ pc \in {"loop", "finally", "return", "done"} => currentVersion = 1
          ELSE /\ loopError = e
               /\ firstFailure = e
               /\ thrown = e
               /\ currentVersion = 0
               /\ pc \in {"finally", "return", "done"}
               /\ pc = "done" => /\ result = Outcome(e, 0)
                                 /\ StoredVersion(rows) = 0

C19_Witness ==
    /\ pc = "done"
    /\ dispatched.action = "addColumn"
    /\ dispatched.table = <<"t">>
    /\ schema[<<"t">>] = <<"c1", "c2">>
    /\ dispatched.column = "c3"
    /\ result.state = "rejected"
    /\ result.error.kind = "unknown-column"

\* C20: with the prefix p set, every table a call of the switch targets
\* (created, altered or dropped) is p followed by the declared name and the
\* table a foreign key references is p followed by its declared name; the
\* version row written is keyed p followed by 'db_version', all rows sharing
\* the one bookkeeping table; so no step of an upgrade under p adds, removes
\* or changes the version row of another prefix.
C20_PrefixedNamesAndKeys ==
    [][/\ \A i \in 1..Len(issued') :
            issued'[i].op # "raw"
            => /\ issued'[i].table = tablePrefix \o dispatched.table
               /\ issued'[i].references =
                    IF dispatched.action \in {"createForeign", "createTableForeignKeys"}
                    THEN tablePrefix \o ForeignTable ELSE <<>>
       /\ \A r \in rows \cup rows' :
            r.key # tablePrefix \o DbVersion => (r \in rows /\ r \in rows')
       /\ rows' # rows
          => /\ calls'[Len(calls')].op \in {"insert", "update"}
             /\ rows' \ rows = {[key |-> tablePrefix \o DbVersion,
                                 value |-> NumberToString(saveVersion)]}
      ]_vars

C20_Witness ==
    /\ pc = "done"
    /\ tablePrefix = <<"a", "_">>
    /\ dispatched.action = "createTableForeignKeys"
    /\ Len(issued) = 1
    /\ issued[1].table = <<"a", "_", "t">>
    /\ issued[1].references = <<"a", "_", "u">>
    /\ rows = {[key |-> DbVersion, value |-> NumberToString(MaxVersion)],
               [key |-> <<"a", "_">> \o DbVersion, value |-> NumberToString(1)]}

(* ======================================================================= *)
(* Properties of install, continued                                        *)
(* ======================================================================= *)
\* the calls that create a table declared in schema.json or add to one
SchemaCalls ==
    SelectSeq(calls, LAMBDA c : c.op \in {"createTable", "createTableIndexes",
                                          "createTableForeignKeys"})

\* an install of a schema document without tables has succeeded
InstalledNoTables == pc = "done" /\ result.state = "resolved" /\ dbTables = 0

\* C16: the step of a successful install that writes the version into a
\* database without a version row issues an insert of the version of
\* version.json as its last call and adds the row keyed 'db_version' holding
\* that version, which is the version read back afterwards and the version
\* install returns; a successful install of a schema document without tables
\* has issued no create-table, index or foreign-key call: the one table
\* created, if any, is the bookkeeping table.
C16_InstallInsertsLatestVersion ==
    [][/\ (/\ pc = "install"
           /\ pc' = "installReturn"
           /\ phase > Len(InstallPhases)
           /\ thrown' = NoError
           /\ \A r \in rows : r.key # DbVersion)
          => /\ calls'[Len(calls')] = Call("insert", 0, versionJson)
             /\ \A i \in Len(calls) + 1 .. Len(calls') - 1 :
                    calls'[i].op \in {"hasTable", "createGlobals", "select"}
             /\ rows' = rows \cup {[key |-> DbVersion,
                                    value |-> NumberToString(versionJson)]}
             /\ StoredVersion(rows') = versionJson
             /\ tableExists'
       /\ (pc = "installReturn" /\ thrown = NoError)
          => /\ result' = Outcome(NoError, versionJson)
             /\ StoredVersion(rows') = versionJson
       /\ InstalledNoTables'
          => /\ SchemaCalls' = <<>>
             /\ \A i \in 1..Len(calls') :
                    calls'[i].op \in {"raw", "hasTable", "createGlobals", "select",
                                      "insert", "update"}
      ]_vars

C16_Witness ==
    /\ InstalledNoTables
    /\ dbRawQueries = <<>>
    /\ versionJson = 2
    /\ calls = <<Call("hasTable", 0, 0), Call("createGlobals", 0, 0),
                 Call("select", 0, 0), Call("insert", 0, 2)>>
    /\ rows = {[key |-> DbVersion, value |-> NumberToString(2)]}
    /\ result = Outcome(NoError, 2)

\* the errors createColumn throws for a column without a name or a type
MissingColumn == {"column-missing-name", "column-missing-type"}

AlreadyExists(code) == code \in {"ER_TABLE_EXISTS_ERROR", "ER_DUP_KEYNAME", "42P07"}

\* C18: a step of install whose driver call fails goes on to the next step,
\* nothing thrown, when ignoreExistsError is set and the error says that the
\* object exists already; for any other error, and for every error when
\* ignoreExistsError is not set, it aborts install with an error.
C18_ExistsErrorsIgnoredOthersAbort ==
    [][(examined'.step = "install" /\ examined'.answer \in ErrorCodes)
       => IF ignoreExistsError /\ AlreadyExists(examined'.answer)
          THEN /\ pc' = "install"
               /\ loopIndex' = loopIndex + 1
               /\ thrown' = NoError
          ELSE /\ pc' = "installReturn"
               /\ thrown' # NoError
      ]_vars

(* ======================================================================= *)
(* Properties of the calls in flight                                       *)
(* ======================================================================= *)
\* C21: during install and upgrade at most one driver call is in flight,
\* and it is the call issued last; a step that issues a call issues one
\* call, with no call in flight; the calls of install are issued in the
\* order of its loops and the action calls of upgrade in ascending order of
\* version and of position in the descriptor.
C21_OneCallInFlight ==
    [][/\ Len(inFlight') <= 1
       /\ inFlight' # <<>> => inFlight'[1] = calls'[Len(calls')]
       /\ calls' # calls
          => /\ Len(calls') = Len(calls) + 1
             /\ SubSeq(calls', 1, Len(calls)) = calls
             /\ inFlight' = <<calls'[Len(calls')]>>
             /\ \/ inFlight = <<>>
                \/ /\ calls'[Len(calls')].op = "retry"
                   /\ inFlight = <<Call("action", calls'[Len(calls')].a,
                                        calls'[Len(calls')].b)>>
       /\ phase' > 0
          => \A i, j \in 1..Len(calls') :
                i < j => PhaseRank(calls'[i].op) <= PhaseRank(calls'[j].op)
       /\ Ascending(SelectSeq(calls', LAMBDA c : c.op = "action"))
      ]_vars

C21_Witness ==
    /\ inFlight = <<Call("retry", 2, 1)>>
    /\ pc = "switchAwait"
    /\ Len(calls) >= 6
    /\ calls[Len(calls) - 1] = Call("action", 2, 1)
    /\ \E i \in 1..Len(calls) : calls[i] = Call("action", 1, 1)

(* ======================================================================= *)
(* Properties of the errors of upgrade                                     *)
(* ======================================================================= *)
\* no run that met an error nothing suppressed has reported success
NoFailureReportsSuccess ==
    (pc = "done" /\ result.state = "resolved")
    => /\ loopError = NoError
       /\ firstFailure = NoError
       /\ readErrors = {}
       /\ ~storeFailed

\* C22: an upgrade that met an error which ignore_errors did not suppress
\* (a descriptor that cannot be read or parsed, a failed action, a failed
\* call of the version store) never reports success, and the error that
\* made the version loop abort is the error the caller receives.
C22_EveryErrorReachesCaller ==
    /\ NoFailureReportsSuccess
    /\ (pc = "done" /\ storeFailed) => result.state = "rejected"
    /\ (pc = "done" /\ loopError # NoError)
       => (result.state = "rejected" /\ result.error = loopError)

(* ======================================================================= *)
(* Properties of the callbacks                                             *)
(* ======================================================================= *)
\* C23: a public operation called with a callback never invokes it more
\* than once, and when everything it scheduled has run it has invoked it
\* exactly once: with a null error, and the result if the operation has one,
\* when the body succeeded, with the error when it failed; nothing it
\* scheduled throws.
C23_CallbackInvokedOnce ==
    pc = "immediates"
    => /\ Len(adapter.invoked) <= 1
       /\ ~adapter.uncaught
       /\ adapter.queue = <<>>
          => /\ Len(adapter.invoked) = 1
             /\ adapter.invoked[1].error = (adapter.body = "error")
             /\ adapter.body = "ok"
                => adapter.invoked[1].value = (adapter.op \in ReturnsValue)

(* ======================================================================= *)
(* Properties of a second upgrade call                                     *)
(* ======================================================================= *)
\* the positions in the descriptor of version n of the action calls cs
PositionsIn(cs, n) ==
    LET ofVersion == SelectSeq(cs, LAMBDA c : c.op = "action" /\ c.a = n)
    IN [i \in 1..Len(ofVersion) |-> ofVersion[i].b]

\* s and t agree as far as both go
AgreeAsFarAsTheyGo(s, t) ==
    \A i \in 1..Len(s) : i <= Len(t) => s[i] = t[i]

\* the second call has read the version it starts from
SecondCallRunning ==
    /\ retry.run = 2
    /\ pc \notin {"idle", "return"} \/ (pc = "return" /\ originalVersion # UNDEFINED)

\* C24 as stated: the second upgrade call, made after a call that aborted
\* in version N, issues no action call of a version below N, and its calls
\* for version N are the calls the first call issued for version N, from the
\* first on, as far as it gets.
C24_SecondCallResumesAtAbortedVersion ==
    retry.run = 2
    => /\ \A i \in 1..Len(calls) : calls[i].op = "action" => calls[i].a >= retry.abortedIn
       /\ AgreeAsFarAsTheyGo(PositionsIn(calls, retry.abortedIn),
                             PositionsIn(retry.before, retry.abortedIn))

\* the positions of the actions of descriptor d whose bounds admit the
\* starting version o, in declared order
RECURSIVE Admitted(_, _, _)
Admitted(d, o, i) ==
    IF i > Len(d) THEN <<>>
    ELSE (IF WithinExclusiveBounds(d[i], o) THEN <<i>> ELSE <<>>) \o Admitted(d, o, i + 1)

\* C24, amended: when the first call has left N-1 persisted, the second
\* call starts from N-1, issues no action call of a version below N, and its
\* calls for version N are, from the first on and as far as it gets, the
\* actions of the descriptor of N whose bounds admit N-1 as the starting
\* version: the actions applied before the failing one are executed again
\* unless their bounds exclude N-1.
C24_SecondCallResumesWithinBounds ==
    (SecondCallRunning /\ TargetVersion(originalVersion) = retry.abortedIn)
    => /\ \A i \in 1..Len(calls) : calls[i].op = "action" => calls[i].a >= retry.abortedIn
       /\ LET now == PositionsIn(calls, retry.abortedIn)
              all == Admitted(retry.files[retry.abortedIn], originalVersion, 1)
          IN /\ Len(now) <= Len(all)
             /\ now = SubSeq(all, 1, Len(now))
             /\ \A i \in 1..Len(PositionsIn(retry.before, retry.abortedIn)) :
                   LET k == PositionsIn(retry.before, retry.abortedIn)[i] IN
                   (/\ WithinExclusiveBounds(retry.files[retry.abortedIn][k],
                                             originalVersion)
                    /\ pc = "done" /\ result.state = "resolved")
                   => \E j \in 1..Len(now) : now[j] = k

C24_Witness ==
    /\ retry.run = 2
    /\ pc = "done"
    /\ result.state = "resolved"
    /\ retry.abortedIn = 2
    /\ originalVersion = 1
    /\ Len(retry.files[2]) = 2
    /\ retry.files[2][1].max_version = UNDEFINED
    /\ PositionsIn(retry.before, 2) = <<1, 2>>
    /\ PositionsIn(calls, 2) = <<1, 2>>
    /\ PositionsIn(calls, 1) = <<>>

(* ======================================================================= *)
(* Properties of a version.json that does not parse                        *)
(* ======================================================================= *)
\* C25: when version.json does not parse, install and upgrade end rejected
\* with the parse error (upgrade with the driver's error if reading the
\* current version has failed before version.json is read), no insert or
\* update of the version is issued, and the rows of schema_globals stay as
\* they were.
C25_UnparsableVersionJsonFailsWithoutWrite ==
    /\ [](~versionParses
          => /\ setInvocations = <<>>
             /\ \A i \in 1..Len(calls) : calls[i].op \notin {"insert", "update"}
             /\ pc = "done"
                => /\ result.state = "rejected"
                   /\ result.error = VersionJsonError \/ storeFailed)
    /\ [][~versionParses => rows' = rows]_vars

C25_Witness ==
    /\ ~versionParses
    /\ pc = "done"
    /\ result.state = "rejected"
    /\ result.error = VersionJsonError
    /\ originalVersion = 1
    /\ calls # <<>>
    /\ rows = {[key |-> KeyOf(<<>>), value |-> NumberToString(1)]}

(* ======================================================================= *)
(* Properties of concurrent calls of getCurrentDbVersion                   *)
(* ======================================================================= *)
\* createTable has been answered for caller c
CreateAnswered(c) ==
    callers[c].sawMissing /\ callers[c].pc \in {"select", "resolved", "rejected"}

\* C26: the check and the create of ensureSchemaGlobalsExist are two driver
\* calls: several callers can all see schema_globals missing, and of the
\* callers that saw it missing and had their createTable answered exactly
\* one has created the table; the others have failed with the error of the
\* table existing.
C26_CheckThenCreateRace ==
    \A c, d \in Callers :
        (c # d /\ CreateAnswered(c) /\ CreateAnswered(d))
        => /\ callers[c].pc = "rejected" \/ callers[d].pc = "rejected"
           /\ callers[c].pc # "rejected" \/ callers[d].pc # "rejected"
              \/ \E e \in Callers \ {c, d} : CreateAnswered(e) /\ callers[e].pc # "rejected"
           /\ \A e \in {c, d} : callers[e].pc = "rejected"
                 => callers[e].error = Err("ER_TABLE_EXISTS_ERROR", 0, 0)

C26_Witness ==
    /\ callers[1].sawMissing
    /\ callers[2].sawMissing
    /\ callers[1].pc = "resolved"
    /\ callers[2].pc = "rejected"
    /\ callers[2].error = Err("ER_TABLE_EXISTS_ERROR", 0, 0)
    /\ tableExists

(* ======================================================================= *)
(* Properties of createColumn                                              *)
(* ======================================================================= *)
\* the defaultTo calls made on the column
DefaultsApplied == SelectSeq(builtColumn.built, LAMBDA c : c.method = <<"defaultTo">>)

\* C27: createColumn makes one defaultTo call with the raw value of
\* raw_default when raw_default is present, one with the value of default
\* when only default is present, and none when both are absent.
C27_OneDefaultRawWins ==
    builtColumn.built # <<>>
    => /\ Len(DefaultsApplied) <= 1
       /\ "raw_default" \in builtColumn.data.has
          => /\ Len(DefaultsApplied) = 1
             /\ DefaultsApplied[1].args = <<"raw_default">>
             /\ DefaultsApplied[1].flag = "raw"
       /\ ("raw_default" \notin builtColumn.data.has /\ "default" \in builtColumn.data.has)
          => /\ Len(DefaultsApplied) = 1
             /\ DefaultsApplied[1].args = <<"default">>
             /\ DefaultsApplied[1].flag = "none"
       /\ builtColumn.data.has \cap DefaultKeys = {} => DefaultsApplied = <<>>

C27_Witness ==
    /\ builtColumn.data.has \cap DefaultKeys = DefaultKeys
    /\ builtColumn.data.falsy \cap DefaultKeys = DefaultKeys
    /\ DefaultsApplied = <<BuilderCall(<<"defaultTo">>, <<"raw_default">>, <<>>, "raw")>>

\* the recognised types: their builder and the attributes handed to it
Recognised ==
    {<<"text">>, <<"string">>, <<"varchar">>, <<"char">>, <<"float">>, <<"double">>,
     <<"decimal">>, <<"timestamp">>, <<"timestamptz">>, <<"enu">>, <<"enum">>,
     <<"json">>, <<"jsonb">>}

DedicatedBuilder(type) ==
    CASE type \in {<<"timestamp">>, <<"timestamptz">>} -> <<"timestamp">>
      [] type \in {<<"enu">>, <<"enum">>} -> <<"enu">>
      [] type \in {<<"json">>, <<"jsonb">>} -> <<"json">>
      [] OTHER -> type

AttributesOf(type) ==
    CASE type = <<"text">> -> <<"text_type">>
      [] type \in {<<"string">>, <<"varchar">>, <<"char">>} -> <<"length">>
      [] type \in {<<"float">>, <<"double">>, <<"decimal">>} -> <<"precision", "scale">>
      [] type \in {<<"enu">>, <<"enum">>} -> <<"enum_values">>
      [] OTHER -> <<>>

\* C28: an 'unsigned ' prefix is taken off the type and the column is made
\* unsigned; a remaining type that starts with ':' goes to specificType
\* without the colon, whatever follows the colon; a recognised type goes to
\* its builder with its attributes; any other type is called as the builder
\* of its own name, with the name only.
C28_TypeMapping ==
    builtColumn.built # <<>>
    => LET type == builtColumn.data.type
           prefixed == Head(type) = "unsigned "
           rest == IF prefixed THEN Tail(type) ELSE type
           first == builtColumn.built[1]
           made == {builtColumn.built[i].method : i \in 2..Len(builtColumn.built)}
       IN /\ prefixed => <<"unsigned">> \in made
          /\ (~prefixed /\ ("unsigned" \notin builtColumn.data.has
                            \/ "unsigned" \in builtColumn.data.falsy))
             => <<"unsigned">> \notin made
          /\ IF Head(rest) = ":"
             THEN /\ first.method = <<"specificType">>
                  /\ first.native = Tail(rest)
                  /\ first.args = <<>>
             ELSE IF rest \in Recognised
             THEN /\ first.method = DedicatedBuilder(rest)
                  /\ first.args = AttributesOf(rest)
                  /\ first.native = <<>>
             ELSE /\ first.method = rest
                  /\ first.args = <<>>
                  /\ first.native = <<>>

C28_Witness ==
    /\ builtColumn.data.type = <<"unsigned ", ":", "text">>
    /\ builtColumn.built[1] = BuilderCall(<<"specificType">>, <<>>, <<"text">>, "none")
    /\ builtColumn.built[2] = Modifier("unsigned")

(* ======================================================================= *)
(* Properties of the persisted version during and after upgrade            *)
(* ======================================================================= *)
\* the version loop of upgrade is running
InVersionLoop == pc \in {"loop", "actions", "switch"}

\* C29: while the version loop of upgrade runs no write of the version has
\* been issued and the persisted version is the one read at the start,
\* however far currentVersion has got.
C29_NoWriteWhileLoopRuns ==
    InVersionLoop
    => /\ StoredVersion(rows) = originalVersion
       /\ setInvocations = <<>>
       /\ \A i \in 1..Len(calls) : calls[i].op \notin {"insert", "update"}

C29_Witness ==
    /\ pc = "loop"
    /\ originalVersion = 0
    /\ currentVersion = 2
    /\ StoredVersion(rows) = 0
    /\ \E i \in 1..Len(calls) : calls[i].op = "action" /\ calls[i].a = 1
    /\ \E i \in 1..Len(calls) : calls[i].op = "action" /\ calls[i].a = 2

\* C30 as stated: no step of upgrade lowers the persisted version (a
\* missing version row counts as lower than every version).
C30_PersistedVersionNeverDecreases ==
    [][StoredVersion(rows') >= StoredVersion(rows)]_vars

(* ======================================================================= *)
(* Properties of a failed install                                          *)
(* ======================================================================= *)
\* the calls of the four loops of install
InstallPhaseOps == {InstallPhases[p] : p \in 1..Len(InstallPhases)}

\* the step just taken by install failed and ignoreExistsError does not
\* cover its error
FailedUnsuppressed ==
    /\ examined.step = "install"
    /\ examined.answer # "ok"
    /\ ~(ignoreExistsError /\ MatchesExists(Err(examined.answer, 0, 0)))

\* install has ended with the error of one of its loops
InstallAborted ==
    /\ pc \in {"installReturn", "done"}
    /\ thrown # NoError
    /\ thrown.kind # "driver"

\* C31: a step of install that fails without being suppressed ends install
\* with an error; setCurrentDbVersion is then never called, no call follows
\* the failed one and the calls issued before it stay as they are, the rows
\* of schema_globals are the ones found at the start, and with no version
\* row isInstallNeeded answers true.
C31_FailedInstallWritesNoVersion ==
    /\ [](FailedUnsuppressed => (pc = "installReturn" /\ thrown # NoError))
    /\ [](InstallAborted
          => /\ setInvocations = <<>>
             /\ \A i \in 1..Len(calls) : calls[i].op \in InstallPhaseOps
             /\ pc = "done" => result.state = "rejected"
             /\ VersionRows(rows) = {} => InstallNeeded(StoredVersion(rows)))
    /\ [][thrown' # NoError
          => /\ rows' = rows
             /\ Len(calls') >= Len(calls)
             /\ SubSeq(calls', 1, Len(calls)) = calls]_vars

C31_Witness ==
    /\ pc = "done"
    /\ result.state = "rejected"
    /\ thrown.kind = "failed-foreign-keys"
    /\ rows = {}
    /\ InstallNeeded(StoredVersion(rows))
    /\ Len(calls) >= 4
    /\ calls[1] = Call("createTable", 1, 0)
    /\ ignoreExistsError

(* ======================================================================= *)
(* Properties of an upgrade with nothing to do                             *)
(* ======================================================================= *)
\* upgrade has read a persisted version that is the latest declared one
AlreadyLatest ==
    /\ originalVersion \notin {UNDEFINED, NULL}
    /\ latestVersion = originalVersion

\* C32: when the persisted version is the latest declared version, upgrade
\* reads no descriptor, issues no action call and no insert or update, does
\* not call setCurrentDbVersion, and resolves with that version.
C32_NothingToDoWhenLatest ==
    AlreadyLatest
    => /\ pc \notin {"actions", "switch"}
       /\ notFound = {}
       /\ readErrors = {}
       /\ upgradeSchemaLength = 0
       /\ currentVersion = originalVersion
       /\ setInvocations = <<>>
       /\ \A i \in 1..Len(calls) : calls[i].op \in {"hasTable", "createGlobals", "select"}
       /\ StoredVersion(rows) = originalVersion
       /\ pc = "done" => result = Outcome(NoError, originalVersion)

C32_Witness ==
    /\ AlreadyLatest
    /\ originalVersion = 2
    /\ pc = "done"
    /\ result = Outcome(NoError, 2)
    /\ calls = <<Call("hasTable", 0, 0), Call("select", 0, 0)>>

(* ======================================================================= *)
(* Termination of upgrade                                                  *)
(* ======================================================================= *)
\* C33: upgrade comes to its end when every awaited step completes; a step
\* that brings the version loop back to its condition has advanced
\* currentVersion by exactly one, the steps inside an iteration leave it as
\* it is, and currentVersion never passes the latest declared version, so
\* the loop body runs at most L - o times.
C33_UpgradeTerminates ==
    /\ <>(pc = "done")
    /\ [][(pc \in {"loop", "actions", "switch"} /\ pc' = "loop")
          => currentVersion' = ToNumber(currentVersion) + 1]_vars
    /\ [][(pc \in {"loop", "actions", "switch"} /\ pc' # "loop")
          => currentVersion' = currentVersion]_vars
    /\ [](pc \in {"loop", "actions", "switch"}
          => /\ ToNumber(originalVersion) <= ToNumber(currentVersion)
             /\ pc # "loop" => ToNumber(currentVersion) < latestVersion
             /\ ToNumber(originalVersion) <= latestVersion
                => ToNumber(currentVersion) <= latestVersion)

C33_Witness ==
    /\ pc = "done"
    /\ originalVersion = 0
    /\ latestVersion = 2
    /\ currentVersion = 2
    /\ result = Outcome(NoError, 2)
    /\ Len(SelectSeq(calls, LAMBDA c : c.op = "action")) >= 2

(* ======================================================================= *)
(* Properties of the fallback of addColumn and alterColumn                 *)
(* ======================================================================= *)
\* the switch has just issued the call of an addColumn or alterColumn action
ColumnChangeIssued ==
    /\ examined.step = "switch"
    /\ dispatched.action \in {"addColumn", "alterColumn"}
    /\ issued # <<>>

\* the action has failed: its error was thrown, or swallowed by ignore_errors
ActionFailed == thrown # NoError \/ examined.softened

\* C34: the call of addColumn or alterColumn carries the position of the
\* column; when it is answered ER_BAD_FIELD_ERROR the same change is issued
\* once more without a position and no third time, and the action fails
\* exactly when that second call fails; any other error of the first call
\* fails the action without a second call.
C34_FallbackWithoutPosition ==
    ColumnChangeIssued
    => /\ issued[1].position # NoPosition
       /\ IF examined.answer = "ER_BAD_FIELD_ERROR"
          THEN /\ Len(issued) = 2
               /\ issued[2] = [issued[1] EXCEPT !.position = NoPosition]
               /\ ActionFailed <=> examined.second # "ok"
          ELSE /\ Len(issued) = 1
               /\ ActionFailed <=> examined.answer # "ok"
       /\ (ActionFailed /\ ~dispatched.ignore_errors) <=> thrown # NoError

C34_Witness ==
    /\ ColumnChangeIssued
    /\ dispatched.action = "alterColumn"
    /\ examined.answer = "ER_BAD_FIELD_ERROR"
    /\ examined.second = "ok"
    /\ Len(issued) = 2
    /\ issued[1].position.where = "after"
    /\ issued[2].position = NoPosition
    /\ issued[2].alter
    /\ thrown = NoError
    /\ pc = "actions"

(* ======================================================================= *)
(* Properties of concurrent calls of setCurrentDbVersion                   *)
(* ======================================================================= *)
\* the insert of caller c has been answered
InsertAnswered(c) == callers[c].readAbsent /\ callers[c].pc \in {"resolved", "rejected"}

\* C35: schema_globals holds at most one row with the version key whatever
\* the order of the steps of the callers; of the callers that read no
\* version row and had their insert answered, one has inserted the row and
\* every other one was rejected with the error of the duplicate key.
C35_OneVersionRow ==
    /\ Cardinality(VersionRows(rows)) <= 1
    /\ \A c, d \in Callers :
          (c # d /\ InsertAnswered(c) /\ InsertAnswered(d))
          => /\ callers[c].pc = "rejected" \/ callers[d].pc = "rejected"
             /\ \A e \in {c, d} : callers[e].pc = "rejected"
                   => callers[e].error = Err("ER_DUP_ENTRY", 0, 0)
    /\ \A c \in Callers :
          (InsertAnswered(c) /\ callers[c].pc = "rejected")
          => VersionRows(rows) # {}

C35_Witness ==
    /\ callers[1].readAbsent
    /\ callers[2].readAbsent
    /\ callers[1].pc = "resolved"
    /\ callers[1].version = 1
    /\ callers[2].pc = "rejected"
    /\ callers[2].version = 2
    /\ callers[2].error = Err("ER_DUP_ENTRY", 0, 0)
    /\ rows = {[key |-> VersionKey, value |-> NumberToString(1)]}

(* ======================================================================= *)
(* Properties of a database without a version row                          *)
(* ======================================================================= *)
\* C36: on a database without a version row isUpgradeNeeded returns true
\* when the version of version.json is at least 1, and isInstallNeeded
\* called right after it returns true as well.
C36_FreshDatabaseNeedsBoth ==
    /\ [][(Returns("isUpgradeNeeded") /\ lastOp'.ok /\ VersionRows(rows) = {}
           /\ versionJson >= 1)
          => lastOp'.value = TRUE]_vars
    /\ [][(lastOp.op = "isUpgradeNeeded" /\ lastOp.ok /\ VersionRows(rows) = {}
           /\ versionJson >= 1 /\ Returns("isInstallNeeded") /\ lastOp'.ok)
          => (lastOp.value = TRUE /\ lastOp'.value = TRUE)]_vars

C36_Witness ==
    /\ lastOp.op = "isInstallNeeded"
    /\ lastOp.ok
    /\ lastOp.value = TRUE
    /\ opCount = 2
    /\ versionJson = 1
    /\ rows = {}
    /\ calls = <<Call("hasTable", 0, 0), Call("createGlobals", 0, 0), Call("select", 0, 0),
                 Call("hasTable", 0, 0), Call("select", 0, 0)>>

(* ======================================================================= *)
(* The wrapped and the bare form of schema.json                            *)
(* ======================================================================= *)
\* C37: install and upgrade take the tables from under `schema` (and install
\* the raw queries from under `raw`) exactly when schema.json has a `schema`
\* entry whose columns is not an array; otherwise every top-level key is a
\* table and no raw query is run, so a table named schema that has a columns
\* array is among the tables.
C37_WrappedIffSchemaWithoutColumnsArray ==
    document.op # "none" =>
        LET doc == document.doc
            entry == doc.schema
        IN  IF entry.kind # "absent" /\ entry.columns # "array"
            THEN /\ document.tables = entry.keys
                 /\ document.op = "install" =>
                       document.raw = (IF doc.raw = UNDEFINED THEN 0 ELSE doc.raw)
            ELSE /\ document.tables = TopKeys(doc)
                 /\ document.raw = 0
                 /\ entry.kind # "absent" =>
                       \E i \in 1..Len(document.tables) :
                           document.tables[i] = Key("schema", 0)

C37_Witness ==
    /\ document.op = "install"
    /\ document.doc.tables = 1
    /\ document.doc.schema.columns = "array"
    /\ document.doc.raw = MaxRaw
    /\ document.tables = <<Key("table", 1), Key("schema", 0), Key("raw", 0)>>
    /\ document.raw = 0

(* ======================================================================= *)
(* The structure export of the MySQL backup                                *)
(* ======================================================================= *)
\* the stream holds a CREATE statement of that type for that name
CreateWritten(objectType, name) ==
    \E i \in 1..Len(backup.written) :
        /\ backup.written[i].verb = "CREATE"
        /\ backup.written[i].type = objectType
        /\ backup.written[i].name = name

\* C38: when exportTableStructure has resolved, the stream holds a CREATE
\* statement for every base table and for every view of the database, and
\* every statement of a table comes before every statement of a view.
C38_TablesThenViewsWritten ==
    backup.done =>
        /\ \A n \in ObjectNames :
              /\ backup.db[n] = "BASE TABLE" => CreateWritten("Table", n)
              /\ backup.db[n] = "VIEW" => CreateWritten("View", n)
        /\ \A i, j \in 1..Len(backup.written) :
              (backup.written[i].type = "Table" /\ backup.written[j].type = "View")
                  => i < j

====
